---- MODULE Spec2Model ----
(***************************************************************************)
(* A model of the CLI rendering engine: the Mesh (src/mesh.rs), the plane  *)
(* clipper, the rasterizer and the frame buffers (src/viewport.rs).        *)
(*                                                                         *)
(* f32 values are modelled as exact extended rationals <<n, d>> in lowest  *)
(* terms with d >= 0; d = 0 encodes the IEEE specials: <<0,0>> is NaN,     *)
(* <<1,0>> is +inf and <<-1,0>> is -inf.  Rust Vecs are sequences; the    *)
(* indices stored in triangles and tex_tris stay 0-based as in the source. *)
(***************************************************************************)
EXTENDS Integers, Sequences, FiniteSets, TLC

\* ------------------------------------------------------------------------
\* Bounds and precision of the model
\* ------------------------------------------------------------------------
\* number of operations applied to one mesh / one viewport
MaxOps == 2

\* the precision of an inexact f32::sqrt: a multiple of 1/SqrtPrec
SqrtPrec == 2 ^ 4

\* stands for usize::MAX in saturating float-to-integer casts
UsizeMax == 1000000

\* at most this many lights are pushed onto a viewport
MaxLights == 1

\* ------------------------------------------------------------------------
\* f32 arithmetic
\* ------------------------------------------------------------------------
Abs(n) == IF n < 0 THEN -n ELSE n

Sign(n) == IF n < 0 THEN -1 ELSE IF n > 0 THEN 1 ELSE 0

RECURSIVE Gcd(_, _)
Gcd(a, b) == IF b = 0 THEN a ELSE Gcd(b, a % b)

\* the f32 with value n/d (d may be negative or zero)
Q(n, d) ==
    IF d = 0 THEN <<Sign(n), 0>>
    ELSE LET g == Gcd(Abs(n), Abs(d))
         IN  IF d < 0 THEN <<(-n) \div g, (-d) \div g>> ELSE <<n \div g, d \div g>>

I(n) == <<n, 1>>

NaN == <<0, 0>>

IsNaN(a) == a = NaN

IsFinite(a) == a[2] # 0

\* the operations divide out common factors before they multiply
FAdd(a, b) ==
    IF a[2] = 0 /\ b[2] = 0 THEN (IF a = b THEN a ELSE NaN)
    ELSE IF a[2] = 0 THEN a
    ELSE IF b[2] = 0 THEN b
    ELSE LET g == Gcd(a[2], b[2])
         IN  Q(a[1] * (b[2] \div g) + b[1] * (a[2] \div g), (a[2] \div g) * b[2])

FNeg(a) == <<-a[1], a[2]>>

FSub(a, b) == FAdd(a, FNeg(b))

FMul(a, b) ==
    IF a[2] = 0 \/ b[2] = 0 THEN Q(a[1] * b[1], 0)
    ELSE LET g1 == Gcd(Abs(a[1]), b[2])
             g2 == Gcd(Abs(b[1]), a[2])
         IN  Q((a[1] \div g1) * (b[1] \div g2), (a[2] \div g2) * (b[2] \div g1))

\* 1/b; 1/0 is +inf as for the positive zero
FInv(b) ==
    IF b[2] = 0 THEN (IF b[1] = 0 THEN NaN ELSE <<0, 1>>)
    ELSE IF b[1] = 0 THEN <<1, 0>>
    ELSE IF b[1] < 0 THEN <<-b[2], -b[1]>> ELSE <<b[2], b[1]>>

FDiv(a, b) == IF a[2] = 0 /\ b[2] = 0 THEN NaN ELSE FMul(a, FInv(b))

\* n/d < p/q for n, p >= 0 and d, q > 0, by the continued fractions (no products)
RECURSIVE LtPos(_, _, _, _)
LtPos(n, d, p, q) ==
    IF n \div d # p \div q THEN n \div d < p \div q
    ELSE IF n % d = 0 THEN p % q > 0
    ELSE IF p % q = 0 THEN FALSE
    ELSE LtPos(q, p % q, d, n % d)

\* comparisons are false as soon as one side is NaN
FLt(a, b) ==
    /\ ~IsNaN(a)
    /\ ~IsNaN(b)
    /\ IF a[2] = 0 \/ b[2] = 0
       THEN (IF a[2] = 0 /\ b[2] = 0 THEN a[1] < b[1]
             ELSE IF a[2] = 0 THEN a[1] < 0 ELSE b[1] > 0)
       ELSE IF a[1] < 0 /\ b[1] >= 0 THEN TRUE
       ELSE IF a[1] >= 0 /\ b[1] < 0 THEN FALSE
       ELSE IF a[1] < 0 THEN LtPos(-b[1], b[2], -a[1], a[2])
       ELSE LtPos(a[1], a[2], b[1], b[2])

FGt(a, b) == FLt(b, a)

FLe(a, b) == ~IsNaN(a) /\ ~IsNaN(b) /\ ~FLt(b, a)

FGe(a, b) == FLe(b, a)

FAbs(a) == <<Abs(a[1]), a[2]>>

\* `x as usize`: truncation toward zero, saturating; NaN and negatives give 0
AsUsize(a) ==
    IF a[2] = 0 THEN (IF a[1] > 0 THEN UsizeMax ELSE 0)
    ELSE IF a[1] <= 0 THEN 0 ELSE a[1] \div a[2]

\* bisection for the integer square root: lo*lo <= n < hi*hi
RECURSIVE ISqrtBetween(_, _, _)
ISqrtBetween(n, lo, hi) ==
    IF hi - lo <= 1 THEN lo
    ELSE LET mid == (lo + hi) \div 2
         IN  IF mid * mid <= n THEN ISqrtBetween(n, mid, hi) ELSE ISqrtBetween(n, lo, mid)

\* largest k with k*k <= n, for 0 <= n < 2^31
ISqrt(n) == ISqrtBetween(n, 0, IF n + 1 < 46341 THEN n + 1 ELSE 46341)

\* is the non-negative finite a the square of a rational
IsSquare(a) == ISqrt(a[1]) * ISqrt(a[1]) = a[1] /\ ISqrt(a[2]) * ISqrt(a[2]) = a[2]

\* f32::sqrt: exact when the root is rational, else rounded down to a
\* multiple of 1/SqrtPrec
FSqrt(a) ==
    IF a[2] = 0 THEN (IF a[1] > 0 THEN a ELSE NaN)
    ELSE IF a[1] < 0 THEN NaN
    ELSE IF IsSquare(a) THEN Q(ISqrt(a[1]), ISqrt(a[2]))
    ELSE Q(ISqrt((a[1] * SqrtPrec * SqrtPrec) \div a[2]), SqrtPrec)

\* ------------------------------------------------------------------------
\* Vector3D
\* ------------------------------------------------------------------------
XYZ(x, y, z) == [X |-> x, Y |-> y, Z |-> z]

\* a vector with integer coordinates
V(x, y, z) == XYZ(I(x), I(y), I(z))

zero == V(0, 0, 0)

add(a, b) == XYZ(FAdd(a.X, b.X), FAdd(a.Y, b.Y), FAdd(a.Z, b.Z))

sub(a, b) == XYZ(FSub(a.X, b.X), FSub(a.Y, b.Y), FSub(a.Z, b.Z))

mul(a, fac) == XYZ(FMul(fac, a.X), FMul(fac, a.Y), FMul(fac, a.Z))

div(a, fac) == XYZ(FDiv(a.X, fac), FDiv(a.Y, fac), FDiv(a.Z, fac))

mul_elements(a, b) == XYZ(FMul(a.X, b.X), FMul(a.Y, b.Y), FMul(a.Z, b.Z))

dot(a, b) == FAdd(FAdd(FMul(a.X, b.X), FMul(a.Y, b.Y)), FMul(a.Z, b.Z))

magsq(a) == dot(a, a)

mag(a) == FSqrt(magsq(a))

\* x / m for m = sqrt(m2): exact when m is rational, else the quotient
\* rounded toward zero to a multiple of 1/SqrtPrec
DivByRoot(x, m2) ==
    IF ~IsFinite(m2) \/ ~IsFinite(x) \/ IsSquare(m2) THEN FDiv(x, FSqrt(m2))
    ELSE LET q == FDiv(FMul(x, x), m2)
         IN  Q(Sign(x[1]) * ISqrt((q[1] * SqrtPrec * SqrtPrec) \div q[2]), SqrtPrec)

\* least common multiple of two positive integers
Lcm(a, b) == (a \div Gcd(a, b)) * b

\* the shortest integer vector <<x, y, z>> along a finite nonzero a
Primitive(a) ==
    LET l == Lcm(Lcm(a.X[2], a.Y[2]), a.Z[2])
        x == a.X[1] * (l \div a.X[2])
        y == a.Y[1] * (l \div a.Y[2])
        z == a.Z[1] * (l \div a.Z[2])
        g == Gcd(Gcd(Abs(x), Abs(y)), Abs(z))
    IN  <<x \div g, y \div g, z \div g>>

\* a / sqrt(m2), component by component
DivVecByRoot(a, m2) == XYZ(DivByRoot(a.X, m2), DivByRoot(a.Y, m2), DivByRoot(a.Z, m2))

\* the integer vector p divided by its magnitude
NormalizePrimitive(p) ==
    DivVecByRoot(V(p[1], p[2], p[3]), I(p[1] * p[1] + p[2] * p[2] + p[3] * p[3]))

\* Vector3D::normalize. a / |a| does not change when a is scaled, so a finite
\* nonzero a is first replaced by the shortest integer vector along it
normalize(a) ==
    IF IsFinite(a.X) /\ IsFinite(a.Y) /\ IsFinite(a.Z) /\ a # zero
    THEN NormalizePrimitive(Primitive(a))
    ELSE DivVecByRoot(a, magsq(a))

cross(a, b) ==
    XYZ(FSub(FMul(a.Y, b.Z), FMul(a.Z, b.Y)),
        FSub(FMul(a.Z, b.X), FMul(a.X, b.Z)),
        FSub(FMul(a.X, b.Y), FMul(a.Y, b.X)))

\* |a| <= c for c > 0, decided exactly: a component above c refutes it,
\* all components within c/2 prove it, and otherwise the squares decide
mag_le(a, c) ==
    IF FGt(FAbs(a.X), c) \/ FGt(FAbs(a.Y), c) \/ FGt(FAbs(a.Z), c) THEN FALSE
    ELSE IF FLe(FAbs(a.X), FMul(c, Q(1, 2))) /\ FLe(FAbs(a.Y), FMul(c, Q(1, 2)))
            /\ FLe(FAbs(a.Z), FMul(c, Q(1, 2))) THEN TRUE
    ELSE FLe(magsq(a), FMul(c, c))

\* Vec indexing with the 0-based index of the source
At(s, i) == s[i + 1]

InRange(s, i) == i >= 0 /\ i < Len(s)

\* vec![x; n]
Repeat(x, n) == [k \in 1..n |-> x]

\* ------------------------------------------------------------------------
\* Color and Texture
\* ------------------------------------------------------------------------
\* a colour channel is f(x): the plain value x, or smooth_clamp(x)
Ch(x) == [f |-> "id", x |-> x]

RGB(r, g, b) == <<Ch(r), Ch(g), Ch(b)>>

\* a gray of n/10
Gray(n) == RGB(Q(n, 10), Q(n, 10), Q(n, 10))

\* crate::clamp
clamp(min, max, val) == IF FGe(val, max) THEN max ELSE IF FLt(val, min) THEN min ELSE val

\* f32::floor
FFloor(a) == IF a[2] = 0 THEN a ELSE I(a[1] \div a[2])

\* f32::ceil
FCeil(a) == IF a[2] = 0 THEN a ELSE I(-((-a[1]) \div a[2]))

\* f32::fract = self - self.trunc()
FFract(a) ==
    IF a[2] = 0 THEN NaN
    ELSE FSub(a, IF a[1] >= 0 THEN FFloor(a) ELSE FCeil(a))

\* Texture::missing: a checkerboard of squares of `size` texels
TextureMissing(width, height, size) ==
    [width |-> width, height |-> height,
     bitmap |-> [h \in 1..height |-> [w \in 1..width |->
        IF ((h - 1) % (2 * size) >= size) = ((w - 1) % (2 * size) >= size)
        THEN Gray(5) ELSE Gray(9)]]]

\* Texture::lerp_color
lerp_color(c1, c2, fac) ==
    [k \in 1..3 |-> Ch(FAdd(c1[k].x, FMul(FSub(c2[k].x, c1[k].x), fac)))]

\* Texture::sample
sample(tex, UV) ==
    LET u == clamp(I(0), I(1), UV[1])
        v == clamp(I(0), I(1), UV[2])
        tx == FMul(u, I(tex.width - 1))
        ty == FMul(v, I(tex.height - 1))
        c0 == At(At(tex.bitmap, AsUsize(FFloor(ty))), AsUsize(FFloor(tx)))
        c1 == At(At(tex.bitmap, AsUsize(FFloor(ty))), AsUsize(FCeil(tx)))
        c2 == At(At(tex.bitmap, AsUsize(FCeil(ty))), AsUsize(FFloor(tx)))
        c3 == At(At(tex.bitmap, AsUsize(FCeil(ty))), AsUsize(FCeil(tx)))
    IN  lerp_color(lerp_color(c0, c1, FFract(tx)), lerp_color(c2, c3, FFract(tx)), FFract(ty))

\* ------------------------------------------------------------------------
\* Mesh
\* ------------------------------------------------------------------------
\* a Mesh as its constructors build it; of the material only the lighting
\* mode is kept, which Material::missing sets to None
MeshOf(vertices, triangles, tex_coords, tex_tris, face_normals, vertex_normals, texture) ==
    [vertices |-> vertices, triangles |-> triangles,
     tex_coords |-> tex_coords, tex_tris |-> tex_tris,
     face_normals |-> face_normals, vertex_normals |-> vertex_normals,
     origin |-> zero, texture |-> texture, mode |-> "None", cull_backfaces |-> TRUE]

\* Mesh::new
MeshNew(vertices, triangles) ==
    MeshOf(vertices, triangles, <<>>, <<>>,
           Repeat(zero, Len(triangles)), Repeat(zero, Len(vertices)), TextureMissing(10, 10, 2))

\* Mesh::empty
MeshEmpty == MeshOf(<<>>, <<>>, <<>>, <<>>, <<>>, <<>>, TextureMissing(1, 1, 1))

\* the Mesh literal that load_object builds from parsed, range-checked data
MeshLoaded(vertices, triangles, tex_coords, tex_tris) ==
    MeshOf(vertices, triangles, tex_coords, tex_tris,
           Repeat(zero, Len(triangles)), Repeat(zero, Len(vertices)), TextureMissing(1, 1, 1))

\* the invariant of the Mesh data model
MeshInvariant(m) ==
    /\ Len(m.triangles) = Len(m.face_normals)
    /\ Len(m.vertices) = Len(m.vertex_normals)
    /\ Len(m.tex_tris) = Len(m.triangles)
    /\ \A t \in 1..Len(m.triangles) : \A p \in 1..3 : InRange(m.vertices, m.triangles[t][p])
    /\ \A t \in 1..Len(m.tex_tris) : \A p \in 1..3 : InRange(m.tex_coords, m.tex_tris[t][p])

\* Vector3D::rotate_z by a whole number of quarter turns (cos, sin exact)
rotate_z(v, quarter) ==
    LET q == quarter % 4
    IN  IF q = 0 THEN v
        ELSE IF q = 1 THEN XYZ(FNeg(v.Y), v.X, v.Z)
        ELSE IF q = 2 THEN XYZ(FNeg(v.X), FNeg(v.Y), v.Z)
        ELSE XYZ(v.Y, FNeg(v.X), v.Z)

\* Vector3D::rotate_x by a whole number of quarter turns (cos, sin exact)
rotate_x(v, quarter) ==
    LET q == quarter % 4
    IN  IF q = 0 THEN v
        ELSE IF q = 1 THEN XYZ(v.X, FNeg(v.Z), v.Y)
        ELSE IF q = 2 THEN XYZ(v.X, FNeg(v.Y), FNeg(v.Z))
        ELSE XYZ(v.X, v.Z, FNeg(v.Y))

\* Vector3D::rotate_y by a whole number of quarter turns (cos, sin exact)
rotate_y(v, quarter) ==
    LET q == quarter % 4
    IN  IF q = 0 THEN v
        ELSE IF q = 1 THEN XYZ(v.Z, v.Y, FNeg(v.X))
        ELSE IF q = 2 THEN XYZ(FNeg(v.X), v.Y, FNeg(v.Z))
        ELSE XYZ(FNeg(v.Z), v.Y, v.X)

\* Mesh::transform replacing the mesh by one of the moved vertices alone
transform_rebuilding(m, tr) ==
    [m EXCEPT !.vertices = [k \in 1..Len(m.vertices) |-> add(m.vertices[k], m.origin)],
              !.vertex_normals = [k \in 1..Len(m.vertex_normals) |-> zero]]

\* Mesh::transform; tr is [kind, vec] or [kind, angle]
transform(m, tr) ==
    IF tr.kind = "RotateX"
    THEN [m EXCEPT !.vertices =
            [k \in 1..Len(m.vertices) |-> add(rotate_x(sub(m.vertices[k], m.origin), tr.angle), m.origin)]]
    ELSE IF tr.kind = "RotateY"
    THEN [m EXCEPT !.vertices =
            [k \in 1..Len(m.vertices) |-> add(rotate_y(sub(m.vertices[k], m.origin), tr.angle), m.origin)]]
    ELSE IF tr.kind = "RotateZ"
    THEN [m EXCEPT !.vertices =
            [k \in 1..Len(m.vertices) |-> add(rotate_z(sub(m.vertices[k], m.origin), tr.angle), m.origin)]]
    ELSE IF tr.kind = "Translate"
    THEN [m EXCEPT !.origin = add(m.origin, tr.vec),
                   !.vertices = [k \in 1..Len(m.vertices) |-> add(m.vertices[k], tr.vec)]]
    ELSE [m EXCEPT !.vertices =
            [k \in 1..Len(m.vertices) |-> add(mul_elements(sub(m.vertices[k], m.origin), tr.vec), m.origin)]]

\* the writes of one iteration of the triangle loop of recalculate_normals
AddFaceNormal(m, t, normal) ==
    LET tri == At(m.triangles, t)
        vn0 == m.vertex_normals
        vn1 == [vn0 EXCEPT ![tri[1] + 1] = add(vn0[tri[1] + 1], normal)]
        vn2 == [vn1 EXCEPT ![tri[2] + 1] = add(vn1[tri[2] + 1], normal)]
        vn3 == [vn2 EXCEPT ![tri[3] + 1] = add(vn2[tri[3] + 1], normal)]
    IN  [m EXCEPT !.face_normals[t + 1] = normal, !.vertex_normals = vn3]

\* the triangle loop of recalculate_normals from triangle t on
RECURSIVE RecalcLoop(_, _)
RecalcLoop(m, t) ==
    IF t >= Len(m.triangles) THEN m
    ELSE LET tri == At(m.triangles, t)
             p1 == At(m.vertices, tri[1])
         IN  RecalcLoop(AddFaceNormal(m, t,
                            normalize(cross(sub(At(m.vertices, tri[2]), p1),
                                            sub(At(m.vertices, tri[3]), p1)))),
                        t + 1)

\* the vertex loop of recalculate_normals
NormalizeVertexNormals(m) ==
    [m EXCEPT !.vertex_normals = [v \in 1..Len(m.vertices) |-> normalize(m.vertex_normals[v])]]

\* Mesh::recalculate_normals (it indexes face_normals and vertex_normals by
\* triangle and vertex, so it needs the mesh invariant not to panic)
recalculate_normals(m) == NormalizeVertexNormals(RecalcLoop(m, 0))

\* ------------------------------------------------------------------------
\* Clipper
\* ------------------------------------------------------------------------
\* line_intersect_plane measuring from the end vertex
line_intersect_plane_from_end(start, end, plane_pos, plane_normal) ==
    LET pos_start == dot(start, plane_normal)
        pos_end == dot(end, plane_normal)
        pos_intersect == dot(plane_pos, plane_normal)
    IN  FDiv(FSub(pos_intersect, pos_end), FSub(pos_start, pos_end))

\* Viewport::line_intersect_plane
line_intersect_plane(start, end, plane_pos, plane_normal) ==
    LET pos_start == dot(start, plane_normal)
        pos_end == dot(end, plane_normal)
        pos_intersect == dot(plane_pos, plane_normal)
    IN  FDiv(FSub(pos_intersect, pos_start), FSub(pos_end, pos_start))

\* the 0.01 of the vertex merge test
MergeEps == Q(1, 100)

\* lerp_vec measuring the factor from the wrong end of the edge
lerp_vec_from_end(from, to, fac) == add(to, mul(sub(from, to), fac))

\* self.add(other.sub(self).mul(fac)) as written at the intersection points
lerp_vec(from, to, fac) == add(from, mul(sub(to, from), fac))

\* the interpolated texture coordinate pushed for an intersection point
lerp_uv(from, to, fac) ==
    <<FAdd(from[1], FMul(FSub(to[1], from[1]), fac)),
      FAdd(from[2], FMul(FSub(to[2], from[2]), fac))>>

\* the outcome of a scan that matched the positions `hits` of new_verts: the
\* last match wins
MergeFound(new_verts, hits) ==
    IF hits = {} THEN [merge |-> FALSE, idx |-> 0]
    ELSE [merge |-> TRUE, idx |-> new_verts[CHOOSE k \in hits : \A j \in hits : j <= k]]

\* the scan of new_verts for a vertex at the location i
MergeScan(vertices, new_verts, i) ==
    MergeFound(new_verts,
               {k \in 1..Len(new_verts) : mag_le(sub(At(vertices, new_verts[k]), i), MergeEps)})

\* is corner p of triangle t on the kept side of the plane
IsInside(m, t, p, plane_pos, normal) ==
    FGe(dot(At(m.vertices, At(m.triangles, t)[p + 1]), normal), dot(plane_pos, normal))

\* the `inside` Vec of corner positions of triangle t
InsideOf(m, t, plane_pos, normal) ==
    SelectSeq(<<0, 1, 2>>, LAMBDA p : IsInside(m, t, p, plane_pos, normal))

\* the `outside` Vec of corner positions of triangle t
OutsideOf(m, t, plane_pos, normal) ==
    SelectSeq(<<0, 1, 2>>, LAMBDA p : ~IsInside(m, t, p, plane_pos, normal))

\* Tri3 with the last two values exchanged
Tri3Exchanged(pa, a, pb, b, pc, c) ==
    [k \in 1..3 |-> IF k = pa + 1 THEN a ELSE IF k = pb + 1 THEN c ELSE IF k = pc + 1 THEN b ELSE 0]

\* an array [usize; 3] written at three distinct positions
Tri3(pa, a, pb, b, pc, c) ==
    [k \in 1..3 |-> IF k = pa + 1 THEN a ELSE IF k = pb + 1 THEN b ELSE IF k = pc + 1 THEN c ELSE 0]

\* PushScanned without the appends to vertex_normals
PushScannedNoNormals(m, new_verts, i1, i2, s1, s2) ==
    LET v1 == IF s1.merge THEN m.vertices ELSE Append(m.vertices, i1)
        nv1 == IF s1.merge THEN new_verts ELSE Append(new_verts, Len(m.vertices))
        v2 == IF s2.merge THEN v1 ELSE Append(v1, i2)
        nv2 == IF s2.merge THEN nv1 ELSE Append(nv1, Len(v1))
    IN  [idx1 |-> IF s1.merge THEN s1.idx ELSE Len(m.vertices),
         idx2 |-> IF s2.merge THEN s2.idx ELSE Len(v1),
         vertices |-> v2, vertex_normals |-> m.vertex_normals, new_verts |-> nv2]

\* the two appends of intersection vertices shared by both partial cases,
\* given the outcomes s1, s2 of the two scans: vertex i1 then i2, each only
\* when no earlier new vertex is at its place
PushScanned(m, new_verts, i1, i2, s1, s2) ==
    LET v1 == IF s1.merge THEN m.vertices ELSE Append(m.vertices, i1)
        n1 == IF s1.merge THEN m.vertex_normals ELSE Append(m.vertex_normals, zero)
        nv1 == IF s1.merge THEN new_verts ELSE Append(new_verts, Len(m.vertices))
        v2 == IF s2.merge THEN v1 ELSE Append(v1, i2)
        n2 == IF s2.merge THEN n1 ELSE Append(n1, zero)
        nv2 == IF s2.merge THEN nv1 ELSE Append(nv1, Len(v1))
    IN  [idx1 |-> IF s1.merge THEN s1.idx ELSE Len(m.vertices),
         idx2 |-> IF s2.merge THEN s2.idx ELSE Len(v1),
         vertices |-> v2, vertex_normals |-> n2, new_verts |-> nv2]

\* both scans run on the vertices as they were before either append
PushIntersections(m, new_verts, i1, i2) ==
    PushScanned(m, new_verts, i1, i2,
                MergeScan(m.vertices, new_verts, i1), MergeScan(m.vertices, new_verts, i2))

\* match arm `1 =>`, the writes: pu holds the pushed intersection vertices
EmitOneInside(st, t, inside, outside, fac1, fac2, pu) ==
    LET m == st.m
        tri == At(m.triangles, t)
        ttri == At(m.tex_tris, t)
        tp1 == ttri[inside[1] + 1]
        tp2 == ttri[outside[1] + 1]
        tp3 == ttri[outside[2] + 1]
        new_tri == Tri3(inside[1], tri[inside[1] + 1], outside[1], pu.idx1, outside[2], pu.idx2)
        tex_tri == Tri3(inside[1], tp1, outside[1], Len(m.tex_coords), outside[2], Len(m.tex_coords) + 1)
    IN  IF ~(InRange(m.tex_coords, tp1) /\ InRange(m.tex_coords, tp2))
        THEN [st EXCEPT !.panic = TRUE]
        ELSE
        LET tc1 == Append(m.tex_coords, lerp_uv(At(m.tex_coords, tp2), At(m.tex_coords, tp1), fac1))
        IN  IF ~InRange(tc1, tp3) THEN [st EXCEPT !.panic = TRUE]
            ELSE [st EXCEPT
                    !.m.vertices = pu.vertices,
                    !.m.vertex_normals = pu.vertex_normals,
                    !.new_verts = pu.new_verts,
                    !.m.tex_coords = Append(tc1, lerp_uv(At(tc1, tp3), At(tc1, tp1), fac2)),
                    !.m.face_normals = Append(m.face_normals, zero),
                    !.m.tex_tris = Append(m.tex_tris, tex_tri),
                    !.m.triangles = Append(m.triangles, new_tri),
                    !.tris_to_remove = Append(st.tris_to_remove, t)]

\* match arm `1 =>`, the intersections at the factors fac1, fac2
CutOneInside(st, t, inside, outside, fac1, fac2) ==
    LET m == st.m
        tri == At(m.triangles, t)
        p1 == tri[inside[1] + 1]
        p2 == tri[outside[1] + 1]
        p3 == tri[outside[2] + 1]
    IN  EmitOneInside(st, t, inside, outside, fac1, fac2,
                      PushIntersections(m, st.new_verts,
                                        lerp_vec(At(m.vertices, p2), At(m.vertices, p1), fac1),
                                        lerp_vec(At(m.vertices, p3), At(m.vertices, p1), fac2)))

\* match arm `1 =>`: one corner inside
ClipOneInside(st, t, inside, outside, plane_pos, normal) ==
    LET m == st.m
        tri == At(m.triangles, t)
        p1 == tri[inside[1] + 1]
        p2 == tri[outside[1] + 1]
        p3 == tri[outside[2] + 1]
    IN  IF ~InRange(m.tex_tris, t) THEN [st EXCEPT !.panic = TRUE]
        ELSE CutOneInside(st, t, inside, outside,
                line_intersect_plane(At(m.vertices, p2), At(m.vertices, p1), plane_pos, normal),
                line_intersect_plane(At(m.vertices, p3), At(m.vertices, p1), plane_pos, normal))

\* match arm `2 =>`, the writes: pu holds the pushed intersection vertices
EmitTwoInside(st, t, inside, outside, fac1, fac2, pu) ==
    LET m == st.m
        tri == At(m.triangles, t)
        ttri == At(m.tex_tris, t)
        p1 == tri[inside[1] + 1]
        p2 == tri[inside[2] + 1]
        tp1 == ttri[inside[1] + 1]
        tp2 == ttri[inside[2] + 1]
        tp3 == ttri[outside[1] + 1]
        new_tri1 == Tri3(inside[1], p1, inside[2], p2, outside[1], pu.idx1)
        new_tri2 == Tri3(inside[1], pu.idx1, inside[2], p2, outside[1], pu.idx2)
        tex_tri1 == Tri3(inside[1], tp1, inside[2], tp2, outside[1], Len(m.tex_coords))
        tex_tri2 == Tri3(inside[1], Len(m.tex_coords), inside[2], tp2, outside[1], Len(m.tex_coords) + 1)
    IN  IF ~(InRange(m.tex_coords, tp3) /\ InRange(m.tex_coords, tp1))
        THEN [st EXCEPT !.panic = TRUE]
        ELSE
        LET tc1 == Append(m.tex_coords, lerp_uv(At(m.tex_coords, tp3), At(m.tex_coords, tp1), fac1))
        IN  IF ~InRange(tc1, tp2) THEN [st EXCEPT !.panic = TRUE]
            ELSE [st EXCEPT
                    !.m.vertices = pu.vertices,
                    !.m.vertex_normals = pu.vertex_normals,
                    !.new_verts = pu.new_verts,
                    !.m.tex_coords = Append(tc1, lerp_uv(At(tc1, tp3), At(tc1, tp2), fac2)),
                    !.m.face_normals = Append(Append(m.face_normals, zero), zero),
                    !.m.tex_tris = Append(Append(m.tex_tris, tex_tri1), tex_tri2),
                    !.m.triangles = Append(Append(m.triangles, new_tri1), new_tri2),
                    !.tris_to_remove = Append(st.tris_to_remove, t)]

\* match arm `2 =>`, the intersections at the factors fac1, fac2
CutTwoInside(st, t, inside, outside, fac1, fac2) ==
    LET m == st.m
        tri == At(m.triangles, t)
        p1 == tri[inside[1] + 1]
        p2 == tri[inside[2] + 1]
        p3 == tri[outside[1] + 1]
    IN  EmitTwoInside(st, t, inside, outside, fac1, fac2,
                      PushIntersections(m, st.new_verts,
                                        lerp_vec(At(m.vertices, p3), At(m.vertices, p1), fac1),
                                        lerp_vec(At(m.vertices, p3), At(m.vertices, p2), fac2)))

\* match arm `2 =>`: two corners inside
ClipTwoInside(st, t, inside, outside, plane_pos, normal) ==
    LET m == st.m
        tri == At(m.triangles, t)
        p1 == tri[inside[1] + 1]
        p2 == tri[inside[2] + 1]
        p3 == tri[outside[1] + 1]
    IN  IF ~InRange(m.tex_tris, t) THEN [st EXCEPT !.panic = TRUE]
        ELSE CutTwoInside(st, t, inside, outside,
                line_intersect_plane(At(m.vertices, p3), At(m.vertices, p1), plane_pos, normal),
                line_intersect_plane(At(m.vertices, p3), At(m.vertices, p2), plane_pos, normal))

\* the `match inside.len()` of the loop body
ClipByCount(st, t, inside, outside, plane_pos, normal) ==
    IF Len(inside) = 0 THEN [st EXCEPT !.tris_to_remove = Append(st.tris_to_remove, t)]
    ELSE IF Len(inside) = 1 THEN ClipOneInside(st, t, inside, outside, plane_pos, normal)
    ELSE IF Len(inside) = 2 THEN ClipTwoInside(st, t, inside, outside, plane_pos, normal)
    ELSE st

\* the body of `for t in 0..mesh.triangles.len()` for one t
ClipTriangle(st, t, plane_pos, normal) ==
    IF \E p \in 1..3 : ~InRange(st.m.vertices, At(st.m.triangles, t)[p]) THEN [st EXCEPT !.panic = TRUE]
    ELSE ClipByCount(st, t, InsideOf(st.m, t, plane_pos, normal), OutsideOf(st.m, t, plane_pos, normal),
                     plane_pos, normal)

\* the triangle loop; its range is fixed to the n triangles present at entry
RECURSIVE ClipLoop(_, _, _, _, _)
ClipLoop(st, t, n, plane_pos, normal) ==
    IF t >= n \/ st.panic THEN st
    ELSE ClipLoop(ClipTriangle(st, t, plane_pos, normal), t + 1, n, plane_pos, normal)

\* Removed reading the marks one position off
RemovedOffByOne(st, t) == \E k \in 1..Len(st.tris_to_remove) : st.tris_to_remove[k] = t + 1

\* is 0-based position t marked for removal
Removed(st, t) == \E k \in 1..Len(st.tris_to_remove) : st.tris_to_remove[k] = t

\* the kept 0-based positions, in order
KeptPositions(st) ==
    SelectSeq([k \in 1..Len(st.m.triangles) |-> k - 1], LAMBDA t : ~Removed(st, t))

\* the compacting pass over triangles, face_normals and tex_tris
Compact(st) ==
    LET kept == KeptPositions(st)
    IN  IF \E k \in 1..Len(kept) : ~InRange(st.m.face_normals, kept[k]) \/ ~InRange(st.m.tex_tris, kept[k])
        THEN [st EXCEPT !.panic = TRUE]
        ELSE [st EXCEPT
                !.m.triangles = [k \in 1..Len(kept) |-> At(st.m.triangles, kept[k])],
                !.m.face_normals = [k \in 1..Len(kept) |-> At(st.m.face_normals, kept[k])],
                !.m.tex_tris = [k \in 1..Len(kept) |-> At(st.m.tex_tris, kept[k])]]

\* the triangle loop followed by a mark on the first position past the
\* triangles present at entry
ClipPassMarkingAppended(m, plane_pos, plane_normal) ==
    LET st == ClipLoop([m |-> m, tris_to_remove |-> <<>>, new_verts |-> <<>>, panic |-> FALSE],
                       0, Len(m.triangles), plane_pos, normalize(plane_normal))
    IN  [st EXCEPT !.tris_to_remove = Append(st.tris_to_remove, Len(m.triangles))]

\* the state of clip_against_plane when its triangle loop ends
ClipPass(m, plane_pos, plane_normal) ==
    ClipLoop([m |-> m, tris_to_remove |-> <<>>, new_verts |-> <<>>, panic |-> FALSE],
             0, Len(m.triangles), plane_pos, normalize(plane_normal))

\* the compacting pass, unless the triangle loop aborted
ClipFinish(st) ==
    LET out == IF st.panic THEN st ELSE Compact(st)
    IN  [m |-> out.m, panic |-> out.panic]

\* Viewport::clip_against_plane: [m |-> the mesh after the call, panic |-> it aborted]
clip_against_plane(m, plane_pos, plane_normal) == ClipFinish(ClipPass(m, plane_pos, plane_normal))

\* ------------------------------------------------------------------------
\* VertexData and Viewport
\* ------------------------------------------------------------------------
\* the far sentinel stored in inv_depth by VertexData::unset
FarInvDepth == 1000

\* the initial y_min of draw_triangle
YMinStart == 1000

\* the initial |x| of the span ends in x_bounds
XBoundStart == 1000

\* VertexData::new
VertexData(UV, screenXY, worldXYZ, normal, inv_depth) ==
    [UV |-> UV, screenXY |-> screenXY, worldXYZ |-> worldXYZ, normal |-> normal,
     inv_depth |-> inv_depth]

\* VertexData::unset
unset == VertexData(<<I(0), I(0)>>, <<I(0), I(0)>>, zero, zero, I(FarInvDepth))

\* VertexData::lerp
lerp(self, other, x, y, fac) ==
    [UV |-> <<FAdd(self.UV[1], FMul(FSub(other.UV[1], self.UV[1]), fac)),
              FAdd(self.UV[2], FMul(FSub(other.UV[2], self.UV[2]), fac))>>,
     screenXY |-> <<x, y>>,
     normal |-> add(self.normal, mul(sub(other.normal, self.normal), fac)),
     worldXYZ |-> add(self.worldXYZ, mul(sub(other.worldXYZ, self.worldXYZ), fac)),
     inv_depth |-> FAdd(self.inv_depth, FMul(FSub(other.inv_depth, self.inv_depth), fac))]

\* Viewport::new
ViewportNew(width, height, focal_length, bg) ==
    [pixel_buffer |-> [h \in 1..height |-> [w \in 1..width |-> bg]],
     data_buffer |-> [h \in 1..height |-> [w \in 1..width |-> unset]],
     lights |-> <<>>,
     width |-> width, height |-> height, focal_length |-> focal_length, bg |-> bg]

\* clear_buffer resetting the colours only
clear_buffer_colours_only(v) ==
    [v EXCEPT
        !.pixel_buffer = [h \in 1..Len(v.pixel_buffer) |-> [w \in 1..Len(v.pixel_buffer[h]) |->
            IF h <= v.height /\ w <= v.width THEN v.bg ELSE v.pixel_buffer[h][w]]]]

\* Viewport::clear_buffer
clear_buffer(v) ==
    [v EXCEPT
        !.pixel_buffer = [h \in 1..Len(v.pixel_buffer) |-> [w \in 1..Len(v.pixel_buffer[h]) |->
            IF h <= v.height /\ w <= v.width THEN v.bg ELSE v.pixel_buffer[h][w]]],
        !.data_buffer = [h \in 1..Len(v.data_buffer) |-> [w \in 1..Len(v.data_buffer[h]) |->
            IF h <= v.height /\ w <= v.width THEN unset ELSE v.data_buffer[h][w]]]]

\* Viewport::project without the perspective division
project_orthographic(v, vec) ==
    <<FAdd(FMul(vec.X, v.focal_length), FMul(I(v.width), Q(1, 2))),
      FAdd(FMul(vec.Y, v.focal_length), FMul(I(v.height), Q(1, 2)))>>

\* Viewport::project
project(v, vec) ==
    <<FAdd(FDiv(FMul(vec.X, v.focal_length), vec.Z), FMul(I(v.width), Q(1, 2))),
      FAdd(FDiv(FMul(vec.Y, v.focal_length), vec.Z), FMul(I(v.height), Q(1, 2)))>>

\* the points pushed by one branch of draw_line, walking n+1 steps from start
LinePoints(start, end, n, alongX) ==
    LET dx == FSub(end.screenXY[1], start.screenXY[1])
        dy == FSub(end.screenXY[2], start.screenXY[2])
    IN  [k \in 1..(n + 1) |->
            lerp(start, end,
                 IF alongX THEN FAdd(start.screenXY[1], I(k - 1))
                 ELSE FAdd(start.screenXY[1], FMul(I(k - 1), FDiv(dx, dy))),
                 IF alongX THEN FAdd(start.screenXY[2], FMul(I(k - 1), FDiv(dy, dx)))
                 ELSE FAdd(start.screenXY[2], I(k - 1)),
                 FDiv(I(k - 1), IF alongX THEN dx ELSE dy))]

\* Viewport::draw_line
draw_line(p1, p2) ==
    IF FGt(FAbs(FSub(p1.screenXY[1], p2.screenXY[1])), FAbs(FSub(p1.screenXY[2], p2.screenXY[2])))
    THEN LET start == IF FLt(p1.screenXY[1], p2.screenXY[1]) THEN p1 ELSE p2
             end == IF FLt(p1.screenXY[1], p2.screenXY[1]) THEN p2 ELSE p1
         IN  LinePoints(start, end, AsUsize(FSub(end.screenXY[1], start.screenXY[1])), TRUE)
    ELSE LET start == IF FLt(p1.screenXY[2], p2.screenXY[2]) THEN p1 ELSE p2
             end == IF FLt(p1.screenXY[2], p2.screenXY[2]) THEN p2 ELSE p1
         IN  LinePoints(start, end, AsUsize(FSub(end.screenXY[2], start.screenXY[2])), FALSE)

\* ------------------------------------------------------------------------
\* Rasterizer and shader
\* ------------------------------------------------------------------------
\* the closure smooth_clamp = (2/PI)*atan(val/5): injective, and rational
\* only at 0 and at +-5
smooth_clamp(val) ==
    IF val = I(0) THEN Ch(I(0))
    ELSE IF val = I(5) THEN Ch(Q(1, 2))
    ELSE IF val = I(-5) THEN Ch(Q(-1, 2))
    ELSE [f |-> "smooth_clamp", x |-> val]

\* apply_phong_shader sampling at the interpolated UV as it is, without the
\* division by inv_depth
ShadeColorUncorrected(fragment, tex, mode) ==
    LET pos == div(fragment.worldXYZ, fragment.inv_depth)
    IN  IF mode = "None" THEN sample(tex, fragment.UV)
        ELSE <<smooth_clamp(pos.X), smooth_clamp(pos.Y), smooth_clamp(pos.Z)>>

\* the colour apply_phong_shader writes for a fragment
ShadeColor(fragment, tex, mode) ==
    LET base_color == sample(tex, <<FDiv(fragment.UV[1], fragment.inv_depth),
                                    FDiv(fragment.UV[2], fragment.inv_depth)>>)
        pos == div(fragment.worldXYZ, fragment.inv_depth)
    IN  IF mode = "None" THEN base_color
        ELSE <<smooth_clamp(pos.X), smooth_clamp(pos.Y), smooth_clamp(pos.Z)>>

\* a depth test that never skips: the last triangle drawn wins
DepthSkipNever(interp, stored) == FALSE

\* the depth test with the comparison turned around
DepthSkipSmaller(interp, stored) == FLt(interp.inv_depth, stored.inv_depth)

\* the depth test of draw_triangle: TRUE when the fragment is skipped
DepthSkip(interp, stored) == FGt(interp.inv_depth, stored.inv_depth)

\* the initial entry of x_bounds
XBoundsInit ==
    [lo |-> VertexData(<<I(0), I(0)>>, <<I(XBoundStart), I(0)>>, zero, zero, I(0)),
     hi |-> VertexData(<<I(0), I(0)>>, <<I(-XBoundStart), I(0)>>, zero, zero, I(0))]

\* y_min and y_max over the three corners
YMin(p) ==
    LET m1 == IF AsUsize(p[1].screenXY[2]) < YMinStart THEN AsUsize(p[1].screenXY[2]) ELSE YMinStart
        m2 == IF AsUsize(p[2].screenXY[2]) < m1 THEN AsUsize(p[2].screenXY[2]) ELSE m1
    IN  IF AsUsize(p[3].screenXY[2]) < m2 THEN AsUsize(p[3].screenXY[2]) ELSE m2

YMax(p) ==
    LET m1 == IF AsUsize(p[1].screenXY[2]) > 0 THEN AsUsize(p[1].screenXY[2]) ELSE 0
        m2 == IF AsUsize(p[2].screenXY[2]) > m1 THEN AsUsize(p[2].screenXY[2]) ELSE m1
    IN  IF AsUsize(p[3].screenXY[2]) > m2 THEN AsUsize(p[3].screenXY[2]) ELSE m2

\* the loop `for p in points.iter()` from point k on: the span table, or the
\* panic of an index outside it
RECURSIVE XBoundsLoop(_, _, _, _)
XBoundsLoop(points, k, y_min, xb) ==
    IF k > Len(points) THEN [x_bounds |-> xb, panic |-> FALSE]
    ELSE LET pt == points[k]
             y == AsUsize(pt.screenXY[2])
         IN  IF y < y_min \/ y - y_min >= Len(xb) THEN [x_bounds |-> xb, panic |-> TRUE]
             ELSE LET e == xb[y - y_min + 1]
                      lo == IF FLt(pt.screenXY[1], e.lo.screenXY[1]) THEN pt ELSE e.lo
                      hi == IF FGt(pt.screenXY[1], e.hi.screenXY[1]) THEN pt ELSE e.hi
                  IN  XBoundsLoop(points, k + 1, y_min,
                                  [xb EXCEPT ![y - y_min + 1] = [lo |-> lo, hi |-> hi]])

\* three sequences in a row
Cat3(f) == f[1] \o f[2] \o f[3]

\* the points of the three edges p1-p2, p2-p3, p3-p1, in this order
EdgePointsOf(p) == Cat3([e \in 1..3 |-> draw_line(p[e], p[(e % 3) + 1])])

\* the span table of a triangle with corners p
XBounds(p) ==
    XBoundsLoop(EdgePointsOf(p), 1, YMin(p),
                [k \in 1..(IF YMax(p) + 1 > YMin(p) THEN YMax(p) + 1 - YMin(p) ELSE 0) |-> XBoundsInit])

\* is pixel (x, y) visited by the fill loops of a triangle with span table xb
Covered(v, p, xb, x, y) ==
    /\ y >= YMin(p) /\ y <= YMax(p) /\ y < v.height
    /\ x < v.width
    /\ LET e == xb[y - YMin(p) + 1]
       IN  x >= AsUsize(e.lo.screenXY[1]) /\ x < AsUsize(e.hi.screenXY[1])

\* the fragment interpolated for the visited pixel (x, y)
Interp(p, xb, x, y) ==
    LET e == xb[y - YMin(p) + 1]
        x_min == e.lo.screenXY[1]
        x_max == e.hi.screenXY[1]
    IN  lerp(e.lo, e.hi, I(x), I(y), FDiv(FSub(I(x), x_min), FSub(x_max, x_min)))

\* the fragments of the pixels <<x, y>> the fill loops visit
Fragments(v, p, xb) ==
    [c \in {d \in (0..(v.width - 1)) \X (0..(v.height - 1)) : Covered(v, p, xb, d[1], d[2])} |->
        Interp(p, xb, c[1], c[2])]

\* the colours apply_phong_shader computes for the fragments
Shaded(frags, tex, mode) == [c \in DOMAIN frags |-> ShadeColor(frags[c], tex, mode)]

\* the body of the fill loops: the depth test and the two writes, with the
\* fragments the depth test saw (for the frame log)
WriteFragments(v, frags, colors) ==
    LET pass(c) == c \in DOMAIN frags /\ ~DepthSkip(frags[c], v.data_buffer[c[2] + 1][c[1] + 1])
        nv == [v EXCEPT
                !.data_buffer = [h \in 1..v.height |-> [w \in 1..v.width |->
                    IF pass(<<w - 1, h - 1>>) THEN frags[<<w - 1, h - 1>>] ELSE v.data_buffer[h][w]]],
                !.pixel_buffer = [h \in 1..v.height |-> [w \in 1..v.width |->
                    IF pass(<<w - 1, h - 1>>) THEN colors[<<w - 1, h - 1>>] ELSE v.pixel_buffer[h][w]]]]
    IN  [v |-> nv,
         tested |-> {[x |-> c[1], y |-> c[2],
                      frag |-> frags[c],
                      color |-> colors[c],
                      before |-> v.data_buffer[c[2] + 1][c[1] + 1],
                      after |-> nv.data_buffer[c[2] + 1][c[1] + 1],
                      pixel_before |-> v.pixel_buffer[c[2] + 1][c[1] + 1],
                      pixel_after |-> nv.pixel_buffer[c[2] + 1][c[1] + 1]] : c \in DOMAIN frags},
         panic |-> FALSE]

\* the fill loops over the fragments frags
FillFragments(v, frags, tex, mode) == WriteFragments(v, frags, Shaded(frags, tex, mode))

\* draw_triangle once the span table b is built
FillSpans(v, p, b, tex, mode) ==
    IF b.panic THEN [v |-> v, tested |-> {}, panic |-> TRUE]
    ELSE FillFragments(v, Fragments(v, p, b.x_bounds), tex, mode)

\* Viewport::draw_triangle with apply_phong_shader: the viewport after the
\* call, the fragments its depth test saw, and whether it panicked
draw_triangle(v, p, tex, mode, face_norm) == FillSpans(v, p, XBounds(p), tex, mode)

\* the camera direction vector of the backface test
CameraForward == V(0, 0, 1)

\* the backface test shared by draw_mesh and draw_wireframe
Culled(m, t) ==
    /\ m.cull_backfaces
    /\ FGt(dot(At(m.face_normals, t), sub(At(m.vertices, At(m.triangles, t)[1]), CameraForward)), I(0))

\* the three payloads draw_mesh builds for triangle t
Payload(v, m, t) ==
    LET tri == At(m.triangles, t)
        ttri == At(m.tex_tris, t)
        p1 == At(m.vertices, tri[1])
        p2 == At(m.vertices, tri[2])
        p3 == At(m.vertices, tri[3])
        t1 == At(m.tex_coords, ttri[1])
        t2 == At(m.tex_coords, ttri[2])
        t3 == At(m.tex_coords, ttri[3])
        n1 == div(At(m.vertex_normals, tri[1]), p1.Z)
        n2 == div(At(m.vertex_normals, tri[2]), p1.Z)
        n3 == div(At(m.vertex_normals, tri[3]), p1.Z)
    IN  <<VertexData(<<FDiv(t1[1], p1.Z), FDiv(t1[2], p1.Z)>>, project(v, p1), p1, n1, FDiv(I(1), p1.Z)),
          VertexData(<<FDiv(t2[1], p2.Z), FDiv(t2[2], p2.Z)>>, project(v, p2), p2, n2, FDiv(I(1), p2.Z)),
          VertexData(<<FDiv(t3[1], p3.Z), FDiv(t3[2], p3.Z)>>, project(v, p3), p3, n3, FDiv(I(1), p3.Z))>>

\* the accumulated result after a draw_triangle that returned r
Drawn(acc, r) ==
    [v |-> r.v,
     tested |-> Append(acc.tested, [kind |-> "triangle", tested |-> r.tested]),
     panic |-> r.panic]

\* the triangle loop of draw_mesh from triangle t on
RECURSIVE DrawLoop(_, _, _)
DrawLoop(acc, m, t) ==
    IF t >= Len(m.triangles) \/ acc.panic THEN acc
    ELSE IF Culled(m, t) THEN DrawLoop(acc, m, t + 1)
    ELSE IF ~InRange(m.tex_tris, t)
            \/ \E k \in 1..3 : ~InRange(m.tex_coords, At(m.tex_tris, t)[k])
    THEN [acc EXCEPT !.panic = TRUE]
    ELSE DrawLoop(Drawn(acc, draw_triangle(acc.v, Payload(acc.v, m, t), m.texture, m.mode,
                                           At(m.face_normals, t))),
                  m, t + 1)

\* the near plane of draw_mesh
NearPlanePos == V(0, 0, -3)

NearPlaneNormal == V(0, 0, -1)

\* the result of draw_mesh when its triangle loop ended with r
DrawResult(m, r) == [v |-> r.v, m |-> m, tested |-> r.tested, panic |-> r.panic]

\* draw_mesh from its triangle loop on, for the mesh m with its normals
DrawTriangles(v, m) == DrawResult(m, DrawLoop([v |-> v, tested |-> <<>>, panic |-> FALSE], m, 0))

\* draw_mesh going from the clip straight to the triangle loop
DrawClippedUnrecalculated(v, m, c) ==
    IF c.panic THEN [v |-> v, m |-> m, tested |-> <<>>, panic |-> TRUE]
    ELSE DrawTriangles(v, c.m)

\* draw_mesh once the near-plane clip returned c
DrawClipped(v, m, c) ==
    IF c.panic THEN [v |-> v, m |-> m, tested |-> <<>>, panic |-> TRUE]
    ELSE DrawTriangles(v, recalculate_normals(c.m))

\* Viewport::draw_mesh: the viewport and the mesh after the call, the
\* fragments tested per drawn triangle, and whether it panicked
draw_mesh(v, m) == DrawClipped(v, m, clip_against_plane(m, NearPlanePos, NearPlaneNormal))

\* Color::RGB(0.988, 0.784, 0.353), the wireframe colour
WireColor == RGB(Q(988, 1000), Q(784, 1000), Q(353, 1000))

\* the edge points of triangle t that draw_wireframe walks
WirePoints(v, m, t) ==
    LET tri == At(m.triangles, t)
        p1 == At(m.vertices, tri[1])
        p2 == At(m.vertices, tri[2])
        p3 == At(m.vertices, tri[3])
    IN  EdgePointsOf(<<VertexData(<<I(0), I(0)>>, project(v, p1), div(p1, p1.Z), zero, FDiv(I(1), p1.Z)),
                       VertexData(<<I(0), I(0)>>, project(v, p2), div(p2, p2.Z), zero, FDiv(I(1), p2.Z)),
                       VertexData(<<I(0), I(0)>>, project(v, p3), div(p3, p3.Z), zero, FDiv(I(1), p3.Z))>>)

\* the bounds test on an edge point: TRUE when the point is plotted
WireInBounds(v, pt) ==
    /\ ~(FLt(pt.screenXY[1], I(0)) \/ FGe(pt.screenXY[1], I(v.width)))
    /\ ~(FLt(pt.screenXY[2], I(0)) \/ FGe(pt.screenXY[2], I(v.height)))

\* Plotted with the depth test of the fill applied to the edge points
PlottedDepthTested(v, pts) ==
    {<<AsUsize(pts[k].screenXY[1]), AsUsize(pts[k].screenXY[2])>> :
        k \in {j \in 1..Len(pts) :
                 /\ WireInBounds(v, pts[j])
                 /\ ~DepthSkip(pts[j], v.data_buffer[AsUsize(pts[j].screenXY[2]) + 1]
                                                    [AsUsize(pts[j].screenXY[1]) + 1])}}

\* the pixels <<x, y>> set for the edge points pts of one triangle
Plotted(v, pts) ==
    {<<AsUsize(pts[k].screenXY[1]), AsUsize(pts[k].screenXY[2])>> :
        k \in {j \in 1..Len(pts) : WireInBounds(v, pts[j])}}

\* the pixels <<x, y>> that draw_wireframe sets
WirePixels(v, m) ==
    UNION {Plotted(v, WirePoints(v, m, t)) : t \in {u \in 0..(Len(m.triangles) - 1) : ~Culled(m, u)}}

\* the viewport with the pixels px in the wireframe colour
Plot(v, px) ==
    [v EXCEPT !.pixel_buffer = [h \in 1..v.height |-> [w \in 1..v.width |->
        IF <<w - 1, h - 1>> \in px THEN WireColor ELSE v.pixel_buffer[h][w]]]]

\* Viewport::draw_wireframe
draw_wireframe(v, m) == Plot(v, WirePixels(v, m))

\* ------------------------------------------------------------------------
\* The scenes explored
\* ------------------------------------------------------------------------
\* the viewport of the model: Viewport::new(4, 3, 3.0, bg)
ViewWidth == 4

ViewHeight == 3

ViewFocal == 3

Background == RGB(Q(251, 1000), Q(263, 1000), Q(655, 1000))

\* a texture decoded by load_bitmap: Texture::new(2, 2, bitmap)
LoadedTexture ==
    [width |-> 2, height |-> 2,
     bitmap |-> <<<<Gray(1), Gray(3)>>, <<Gray(6), Gray(10)>>>>]

\* vertex positions in camera space (the camera looks down -Z): beyond the
\* near plane Z = -3, on it, and in front of it
Pool == <<V(-2, -1, -5), V(2, -1, -4), V(-1, 0, -3), V(1, 1, -1), V(0, -1, -2)>>

\* three distinct pool points in every order, as one triangle
OneTriangleInputs ==
    {[vertices |-> <<Pool[a], Pool[b], Pool[c]>>, triangles |-> <<<<0, 1, 2>>>>] :
        <<a, b, c>> \in {q \in (1..Len(Pool)) \X (1..Len(Pool)) \X (1..Len(Pool)) :
                            q[1] # q[2] /\ q[2] # q[3] /\ q[1] # q[3]}}

\* meshes of two triangles: quads split along an edge that crosses the near
\* plane, two triangles whose clipped edges end 1/200 apart, a triangle in
\* front of the near plane followed by one beyond it, and two triangles that
\* overlap on screen at different depths, in both orders
TwoTriangleInputs ==
    {[vertices |-> <<V(-2, -1, -5), V(2, -1, -5), V(2, 1, -1), V(-2, 1, -1)>>,
      triangles |-> <<<<0, 1, 2>>, <<0, 2, 3>>>>],
     [vertices |-> <<V(-2, -1, -1), V(2, -1, -1), V(2, 1, -5), V(-2, 1, -5)>>,
      triangles |-> <<<<0, 1, 2>>, <<0, 2, 3>>>>],
     [vertices |-> <<V(0, 0, -1), V(0, 0, -5), V(2, 0, -5),
                     XYZ(Q(1, 200), I(0), I(-1)), XYZ(Q(1, 200), I(0), I(-5)), V(0, 2, -5)>>,
      triangles |-> <<<<0, 1, 2>>, <<3, 5, 4>>>>],
     [vertices |-> <<V(-1, 0, -1), V(1, 0, -1), V(0, 1, -2),
                     V(-2, -1, -5), V(2, -1, -5), V(0, 1, -5)>>,
      triangles |-> <<<<0, 1, 2>>, <<3, 4, 5>>>>],
     [vertices |-> <<V(-2, -1, -4), V(2, -1, -4), V(0, 2, -4),
                     V(-3, -2, -6), V(3, -2, -6), V(0, 3, -6)>>,
      triangles |-> <<<<0, 1, 2>>, <<3, 4, 5>>>>],
     [vertices |-> <<V(-2, -1, -4), V(2, -1, -4), V(0, 2, -4),
                     V(-3, -2, -6), V(3, -2, -6), V(0, 3, -6)>>,
      triangles |-> <<<<3, 4, 5>>, <<0, 1, 2>>>>],
     [vertices |-> <<V(-2, -1, -4), V(0, 2, -4), V(2, -1, -4),
                     V(-3, -2, -6), V(0, 3, -6), V(3, -2, -6)>>,
      triangles |-> <<<<0, 1, 2>>, <<3, 4, 5>>>>],
     [vertices |-> <<V(-2, -1, -4), V(0, 2, -4), V(2, -1, -4),
                     V(-3, -2, -6), V(0, 3, -6), V(3, -2, -6)>>,
      triangles |-> <<<<3, 4, 5>>, <<0, 1, 2>>>>]}

MeshInputs == OneTriangleInputs \cup TwoTriangleInputs

\* the texture coordinates a loader reads for an input: one per corner of
\* the unit square, indexed independently of the vertices
InputTexCoords == <<<<I(0), I(0)>>, <<I(1), I(0)>>, <<I(0), I(1)>>, <<I(1), I(1)>>>>

InputTexTris(in) == [t \in 1..Len(in.triangles) |-> IF t = 1 THEN <<1, 2, 0>> ELSE <<3, 0, 2>>]

\* the meshes a driver can hold right after construction
InitMeshes ==
    {[ctor |-> "empty", m |-> MeshEmpty]}
    \cup {[ctor |-> "new", m |-> MeshNew(in.vertices, in.triangles)] : in \in TwoTriangleInputs}
    \cup {[ctor |-> "load_object",
           m |-> [MeshLoaded(in.vertices, in.triangles, InputTexCoords, InputTexTris(in))
                    EXCEPT !.texture = LoadedTexture]] : in \in MeshInputs}

\* the planes clip_against_plane is called with: the near plane of
\* draw_mesh and main, an unnormalized normal, and a slanted plane
Planes ==
    {[pos |-> NearPlanePos, normal |-> NearPlaneNormal],
     [pos |-> V(0, 0, -4), normal |-> V(0, 0, -2)],
     [pos |-> V(0, 0, -3), normal |-> V(0, 3, -4)]}

\* the transforms a driver applies
Transforms ==
    {[kind |-> "Translate", vec |-> V(0, 0, -1)],
     [kind |-> "Translate", vec |-> V(1, 0, 0)],
     [kind |-> "Scale", vec |-> V(2, 2, 2)],
     [kind |-> "Scale", vec |-> V(1, 1, 1)],
     [kind |-> "RotateX", angle |-> 2],
     [kind |-> "RotateY", angle |-> 2],
     [kind |-> "RotateZ", angle |-> 1]}

\* ------------------------------------------------------------------------
\* State
\* ------------------------------------------------------------------------
VARIABLES
    mesh,      \* the Mesh the driver holds
    vp,        \* the Viewport
    status,    \* "ok", or "panic" once a call aborted on an index out of range
    nops,      \* number of operations performed
    last,      \* the last operation, its arguments and what it changed as it was before
    frame      \* what was drawn since the last clear: per triangle the fragments its
               \* depth test saw, per wireframe the pixels it set

vars == <<mesh, vp, status, nops, last, frame>>

Init ==
    /\ \E c \in InitMeshes :
        /\ mesh = c.m
        /\ last = [op |-> "construct", ctor |-> c.ctor]
    /\ vp = ViewportNew(ViewWidth, ViewHeight, I(ViewFocal), Background)
    /\ status = "ok"
    /\ nops = 0
    /\ frame = <<>>

CanStep == status = "ok" /\ nops < MaxOps

\* the driver sets mesh.material.mode
SetMode(mode) ==
    /\ CanStep
    /\ mode # mesh.mode
    /\ mesh' = [mesh EXCEPT !.mode = mode]
    /\ nops' = nops + 1
    /\ last' = [op |-> "set_mode"]
    /\ UNCHANGED <<vp, status, frame>>

Transform(tr) ==
    /\ CanStep
    /\ mesh' = transform(mesh, tr)
    /\ nops' = nops + 1
    /\ last' = [op |-> "transform", tr |-> tr, mesh |-> mesh]
    /\ UNCHANGED <<vp, status, frame>>

RecalculateNormals ==
    /\ CanStep
    /\ mesh' = recalculate_normals(mesh)
    /\ nops' = nops + 1
    /\ last' = [op |-> "recalculate_normals", mesh |-> mesh]
    /\ UNCHANGED <<vp, status, frame>>

ClipAgainstPlane(pl) ==
    /\ CanStep
    /\ \E r \in {clip_against_plane(mesh, pl.pos, pl.normal)} :
           /\ mesh' = IF r.panic THEN mesh ELSE r.m
           /\ status' = IF r.panic THEN "panic" ELSE "ok"
    /\ nops' = nops + 1
    /\ last' = [op |-> "clip_against_plane", plane |-> pl, mesh |-> mesh]
    /\ UNCHANGED <<vp, frame>>

DrawMesh ==
    /\ CanStep
    /\ \E r \in {draw_mesh(vp, mesh)} :
           /\ mesh' = IF r.panic THEN mesh ELSE r.m
           /\ vp' = IF r.panic THEN vp ELSE r.v
           /\ frame' = IF r.panic THEN frame ELSE frame \o r.tested
           /\ status' = IF r.panic THEN "panic" ELSE "ok"
    /\ nops' = nops + 1
    /\ last' = [op |-> "draw_mesh", mesh |-> mesh, vp |-> vp]

DrawWireframe ==
    /\ CanStep
    /\ vp' = draw_wireframe(vp, mesh)
    /\ frame' = Append(frame, [kind |-> "wire", pixels |-> WirePixels(vp, mesh)])
    /\ nops' = nops + 1
    /\ last' = [op |-> "draw_wireframe", vp |-> vp, mesh |-> mesh]
    /\ UNCHANGED <<mesh, status>>

ClearBuffer ==
    /\ CanStep
    /\ vp' = clear_buffer(vp)
    /\ frame' = <<>>
    /\ nops' = nops + 1
    /\ last' = [op |-> "clear_buffer", vp |-> vp]
    /\ UNCHANGED <<mesh, status>>

\* the lights the driver sets up: LightSource::new(color, position)
SceneLights == {[color |-> RGB(Q(9, 10), Q(9, 10), Q(9, 10)), position |-> V(30, 20, -5)]}

\* the driver pushes a light onto the public field Viewport::lights
PushLight(light) ==
    /\ CanStep
    /\ Len(vp.lights) < MaxLights
    /\ vp' = [vp EXCEPT !.lights = Append(vp.lights, light)]
    /\ nops' = nops + 1
    /\ last' = [op |-> "push_light"]
    /\ UNCHANGED <<mesh, status, frame>>

Next ==
    \/ \E mode \in {"None", "Flat", "Smooth"} : SetMode(mode)
    \/ \E tr \in Transforms : Transform(tr)
    \/ RecalculateNormals
    \/ \E pl \in Planes : ClipAgainstPlane(pl)
    \/ DrawMesh
    \/ DrawWireframe
    \/ ClearBuffer
    \/ \E light \in SceneLights : PushLight(light)

Spec == Init /\ [][Next]_vars

\* ------------------------------------------------------------------------
\* Notions the properties are stated in
\* ------------------------------------------------------------------------
\* the last operation was op and it returned
Did(op) == last.op = op /\ status = "ok"

\* corner p (1..3) of triangle t (1..) of m lies on the kept side of pl,
\* by the plane's normal as given
OnKeptSide(m, t, p, pl) ==
    FGe(dot(At(m.vertices, m.triangles[t][p]), pl.normal), dot(pl.pos, pl.normal))

\* the corner positions 1..3 of triangle t of m on the kept side of pl
KeptCorners(m, t, pl) == {p \in 1..3 : OnKeptSide(m, t, p, pl)}

\* the triangles 1.. of m with exactly n corners on the kept side of pl
WithInside(m, pl, n) == {t \in 1..Len(m.triangles) : Cardinality(KeptCorners(m, t, pl)) = n}

\* the point where the segment from o to i meets the plane pl
Crossing(o, i, pl) ==
    LET t == FDiv(FSub(dot(pl.pos, pl.normal), dot(o, pl.normal)),
                  FSub(dot(i, pl.normal), dot(o, pl.normal)))
    IN  add(o, mul(sub(i, o), t))

\* the mesh and the plane a returned clip_against_plane was called with
Pre == last.mesh

Pl == last.plane

\* vertex at corner p of triangle t (1..) of m
Corner(m, t, p) == At(m.vertices, m.triangles[t][p])

\* how many triangles of m are clipped into n triangles and come before t
PartialBefore(m, pl, t, n) == Cardinality({u \in WithInside(m, pl, n) : u < t})

\* where in the result the first triangle emitted for triangle t of m stands:
\* the untouched triangles stay in front, the emitted ones follow in order
FirstEmitted(m, pl, t) ==
    Cardinality(WithInside(m, pl, 3)) + PartialBefore(m, pl, t, 1) + 2 * PartialBefore(m, pl, t, 2) + 1

\* ------------------------------------------------------------------------
\* Properties of the clipper
\* ------------------------------------------------------------------------
\* C1: after clip_against_plane returns, every vertex referenced by a triangle
\* of the mesh satisfies dot(v, n) >= dot(plane_pos, n); after draw_mesh every
\* referenced vertex has Z <= -3.
C1_ClipKeepsInside ==
    /\ Did("clip_against_plane") =>
          \A t \in 1..Len(mesh.triangles) : KeptCorners(mesh, t, Pl) = 1..3
    /\ Did("draw_mesh") =>
          \A t \in 1..Len(mesh.triangles) : \A p \in 1..3 : FLe(Corner(mesh, t, p).Z, I(-3))

\* a clip that cut a triangle crossing the plane and left triangles
C1_Witness ==
    /\ Did("clip_against_plane")
    /\ WithInside(Pre, Pl, 1) \cup WithInside(Pre, Pl, 2) # {}
    /\ Len(mesh.vertices) > Len(Pre.vertices)
    /\ mesh.triangles # <<>>

\* the triangles of Pre with three corners inside, in order
Untouched == SelectSeq([t \in 1..Len(Pre.triangles) |-> t], LAMBDA t : t \in WithInside(Pre, Pl, 3))

StandsFor(idx, t, o, i, exact) ==
    LET c == Crossing(Corner(Pre, t, o), Corner(Pre, t, i), Pl)
    IN  /\ idx < Len(mesh.vertices)
        /\ \/ At(mesh.vertices, idx) = c
           \/ /\ ~exact
              /\ idx >= Len(Pre.vertices)
              /\ mag_le(sub(At(mesh.vertices, idx), c), MergeEps)

\* the triangle count of the result, and the corners of the emitted triangles
ClipShape(exact) ==
    /\ Len(mesh.triangles) = Cardinality(WithInside(Pre, Pl, 3)) + Cardinality(WithInside(Pre, Pl, 1))
                                + 2 * Cardinality(WithInside(Pre, Pl, 2))
    /\ \A t \in WithInside(Pre, Pl, 1) :
          LET i == CHOOSE p \in 1..3 : p \in KeptCorners(Pre, t, Pl)
              e == mesh.triangles[FirstEmitted(Pre, Pl, t)]
          IN  /\ e[i] = Pre.triangles[t][i]
              /\ \A o \in (1..3) \ {i} : StandsFor(e[o], t, o, i, exact)
    /\ \A t \in WithInside(Pre, Pl, 2) :
          LET o == CHOOSE p \in 1..3 : p \notin KeptCorners(Pre, t, Pl)
              i1 == CHOOSE p \in 1..3 : p # o /\ \A q \in (1..3) \ {o} : p <= q
              i2 == CHOOSE p \in 1..3 : p # o /\ p # i1
              e1 == mesh.triangles[FirstEmitted(Pre, Pl, t)]
              e2 == mesh.triangles[FirstEmitted(Pre, Pl, t) + 1]
          IN  /\ e1[i1] = Pre.triangles[t][i1]
              /\ e1[i2] = Pre.triangles[t][i2]
              /\ StandsFor(e1[o], t, o, i1, exact)
              /\ e2[i1] = e1[o]
              /\ e2[i2] = Pre.triangles[t][i2]
              /\ StandsFor(e2[o], t, o, i2, exact)

\* C3 as stated: one triangle (i, new1, new2) for one vertex inside, two
\* triangles (i1, i2, new1), (new1, i2, new2) for two inside, new1 and new2
\* being the intersections of the edges with the plane; the result has
\* #3-inside + #1-inside + 2 * #2-inside triangles.
C3_ExactCrossings == Did("clip_against_plane") => ClipShape(TRUE)

\* C3 amended: the same shape and count, new1 and new2 each being the
\* intersection of its edge with the plane or, when an intersection vertex
\* appended earlier in the same call lies within 0.01 of it, that vertex.
C3_ClipShape == Did("clip_against_plane") => ClipShape(FALSE)

\* a clip that cut a one-inside and a two-inside triangle
C3_Witness ==
    /\ Did("clip_against_plane")
    /\ WithInside(Pre, Pl, 1) # {}
    /\ WithInside(Pre, Pl, 2) # {}

\* the face normal (p2 - p1) x (p3 - p1) of triangle t of m, not normalized
FaceNormal(m, t) == cross(sub(Corner(m, t, 2), Corner(m, t, 1)), sub(Corner(m, t, 3), Corner(m, t, 1)))

\* do the face normals a and b have the same sign: they make an acute angle
SameWinding(a, b) == FGt(dot(a, b), I(0))

\* the positions in the result of the triangles emitted for triangle t of Pre
EmittedFor(t) ==
    IF t \in WithInside(Pre, Pl, 1) THEN {FirstEmitted(Pre, Pl, t)}
    ELSE IF t \in WithInside(Pre, Pl, 2) THEN {FirstEmitted(Pre, Pl, t), FirstEmitted(Pre, Pl, t) + 1}
    ELSE {}

\* C4: every triangle emitted by clipping has the same winding (sign of the
\* face normal (p2 - p1) x (p3 - p1)) as the triangle it came from, whichever
\* corner positions are inside.
C4_WindingPreserved ==
    Did("clip_against_plane") =>
        \A t \in 1..Len(Pre.triangles) : \A e \in EmittedFor(t) :
            FaceNormal(Pre, t) # zero => SameWinding(FaceNormal(mesh, e), FaceNormal(Pre, t))

\* C5: the mesh invariant is preserved by every operation: if it holds before
\* a transform, recalculate_normals or clip_against_plane call (also the clip
\* inside draw_mesh), it holds after it.
C5_InvariantPreserved ==
    (status = "ok"
        /\ last.op \in {"transform", "recalculate_normals", "clip_against_plane", "draw_mesh"}
        /\ MeshInvariant(Pre))
    => MeshInvariant(mesh)

\* a clip that appended vertices, texture coordinates and triangles and
\* removed the triangles it cut, on a mesh satisfying the invariant
C5_Witness ==
    /\ Did("clip_against_plane")
    /\ MeshInvariant(Pre)
    /\ Len(mesh.vertices) > Len(Pre.vertices)
    /\ Len(mesh.tex_coords) > Len(Pre.tex_coords)
    /\ Len(mesh.triangles) > Len(Pre.triangles)
    /\ WithInside(Pre, Pl, 1) # {}

\* ------------------------------------------------------------------------
\* Properties of the constructors
\* ------------------------------------------------------------------------
\* C6: every Mesh produced by a constructor (Mesh::new for in-range triangles,
\* Mesh::empty) satisfies the mesh invariant, including
\* tex_tris.len() == triangles.len().
C6_ConstructedMeshValid ==
    (last.op = "construct" /\ last.ctor \in {"new", "empty"}) => MeshInvariant(mesh)

\* ------------------------------------------------------------------------
\* Properties of the depth buffer
\* ------------------------------------------------------------------------
\* the fragments the depth test saw since the last clear
TriEvents == UNION {frame[k].tested : k \in {j \in 1..Len(frame) : frame[j].kind = "triangle"}}

\* did a wireframe of this frame set pixel <<x, y>>
Wired(x, y) == \E k \in 1..Len(frame) : frame[k].kind = "wire" /\ <<x, y>> \in frame[k].pixels

\* fragment f lies in front of the camera (negative Z, inv_depth = 1/Z)
InFront(f) == FLt(f.inv_depth, I(0))

\* the distance -Z of fragment f from the camera plane
Distance(f) == FNeg(FInv(f.inv_depth))

\* fragment event a is nearer to the camera than b, both at one pixel
Nearer(a, b) ==
    /\ a.x = b.x /\ a.y = b.y
    /\ InFront(a.frag) /\ InFront(b.frag)
    /\ FLt(Distance(a.frag), Distance(b.frag))

\* C7: within one frame, a fragment that is strictly nearer than every other
\* fragment tested at its pixel gives the final data_buffer entry and (where
\* no wireframe was drawn over it) the final pixel_buffer colour, in whichever
\* order the fragments were drawn.
C7_NearestWins ==
    status = "ok" =>
        \A a \in TriEvents :
            (\A b \in TriEvents \ {a} : (b.x = a.x /\ b.y = a.y) => Nearer(a, b))
            /\ InFront(a.frag)
            => /\ vp.data_buffer[a.y + 1][a.x + 1] = a.frag
               /\ ~Wired(a.x, a.y) => vp.pixel_buffer[a.y + 1][a.x + 1] = a.color

\* a pixel where the nearer fragment was drawn first and the farther one,
\* drawn later, found it stored
C7_Witness ==
    /\ status = "ok"
    /\ \E a \in TriEvents : \E b \in TriEvents :
          /\ Nearer(a, b)
          /\ b.before = a.frag
          /\ a.color # b.color
          /\ \A c \in TriEvents : (c.x = a.x /\ c.y = a.y) => c \in {a, b}

\* the depth test left the pixel of event e as it was
Skipped(e) == e.after = e.before /\ e.pixel_after = e.pixel_before

\* the depth test of event e stored the fragment and its shaded colour
Written(e) == e.after = e.frag /\ e.pixel_after = e.color

C9_ClearResets ==
    Did("clear_buffer") =>
        /\ \A h \in 1..vp.height : \A w \in 1..vp.width :
              /\ vp.pixel_buffer[h][w] = vp.bg
              /\ vp.data_buffer[h][w] = unset
              /\ vp.data_buffer[h][w].inv_depth = I(1000)
        /\ vp.pixel_buffer = ViewportNew(vp.width, vp.height, vp.focal_length, vp.bg).pixel_buffer
        /\ vp.data_buffer = ViewportNew(vp.width, vp.height, vp.focal_length, vp.bg).data_buffer
        /\ vp.lights = last.vp.lights
        /\ vp.width = last.vp.width
        /\ vp.height = last.vp.height
        /\ vp.focal_length = last.vp.focal_length

\* a clear of a viewport whose two buffers had been drawn into
C9_Witness ==
    /\ Did("clear_buffer")
    /\ \E h \in 1..vp.height : \E w \in 1..vp.width :
          /\ last.vp.pixel_buffer[h][w] # vp.bg
          /\ last.vp.data_buffer[h][w] # unset

\* the in-bounds edge points of the triangles of m that are not culled
EdgePoints(v, m) ==
    UNION {{WirePoints(v, m, t)[k] : k \in {j \in 1..Len(WirePoints(v, m, t)) :
                                              WireInBounds(v, WirePoints(v, m, t)[j])}} :
           t \in {u \in 0..(Len(m.triangles) - 1) : ~Culled(m, u)}}

\* C10: draw_wireframe compares no depth: every in-bounds edge point of every
\* triangle that is not culled is set to the highlight colour whatever depth
\* is stored at its pixel, and data_buffer and the mesh are left unchanged.
C10_WireIgnoresDepth ==
    Did("draw_wireframe") =>
        /\ \A pt \in EdgePoints(last.vp, last.mesh) :
              vp.pixel_buffer[AsUsize(pt.screenXY[2]) + 1][AsUsize(pt.screenXY[1]) + 1] = WireColor
        /\ vp.data_buffer = last.vp.data_buffer
        /\ mesh = last.mesh

\* a wireframe that set a pixel whose stored fragment is nearer than the
\* edge point
C10_Witness ==
    /\ Did("draw_wireframe")
    /\ \E pt \in EdgePoints(last.vp, last.mesh) :
          LET d == last.vp.data_buffer[AsUsize(pt.screenXY[2]) + 1][AsUsize(pt.screenXY[1]) + 1]
          IN  /\ d # unset
              /\ FLt(d.inv_depth, pt.inv_depth)
              /\ vp.pixel_buffer[AsUsize(pt.screenXY[2]) + 1][AsUsize(pt.screenXY[1]) + 1] = WireColor

\* ------------------------------------------------------------------------
\* Properties of the normals
\* ------------------------------------------------------------------------
\* is 0-based vertex index v used by a triangle of m
Referenced(m, v) == \E t \in 1..Len(m.triangles) : \E p \in 1..3 : m.triangles[t][p] = v

\* n has magnitude 1, up to the rounding of the square root (each component
\* is rounded toward zero by less than 1/SqrtPrec)
UnitLength(n) ==
    /\ IsFinite(n.X) /\ IsFinite(n.Y) /\ IsFinite(n.Z)
    /\ FLe(magsq(n), I(1))
    /\ FGe(magsq(n), Q(3, 4))

\* n is a vector of numbers
WellDefined(n) == ~IsNaN(n.X) /\ ~IsNaN(n.Y) /\ ~IsNaN(n.Z)

\* the meshes whose normals were just written by recalculate_normals: called
\* by the driver, or by draw_mesh after its near-plane clip
Recalculated == (Did("recalculate_normals") \/ Did("draw_mesh")) /\ MeshInvariant(Pre)

\* C11: after recalculate_normals on a mesh satisfying the mesh invariant,
\* every vertex referenced by a triangle has a vertex normal of unit
\* magnitude, and every other vertex has a well-defined normal.
C11_UnitVertexNormals ==
    Recalculated =>
        \A v \in 1..Len(mesh.vertices) :
            IF Referenced(mesh, v - 1) THEN UnitLength(mesh.vertex_normals[v])
            ELSE WellDefined(mesh.vertex_normals[v])

\* ------------------------------------------------------------------------
\* Texture::sample in f32 arithmetic
\* ------------------------------------------------------------------------
\* largest texture extents of the sampling scenes
MaxTexWidth == 14

MaxTexHeight == 3

\* is the positive integer d a power of two
RECURSIVE IsPow2(_)
IsPow2(d) == d = 1 \/ (d % 2 = 0 /\ IsPow2(d \div 2))

\* n / 2^k rounded to the nearest integer, ties to even
RoundShift(n, k) ==
    LET q == n \div (2 ^ k)
        r == n % (2 ^ k)
    IN  IF 2 * r > 2 ^ k \/ (2 * r = 2 ^ k /\ q % 2 = 1) THEN q + 1 ELSE q

\* the least k with n / 2^k < 2^24
RECURSIVE ShiftFor(_, _)
ShiftFor(n, k) == IF n \div (2 ^ k) < 2 ^ 24 THEN k ELSE ShiftFor(n, k + 1)

\* the least k with n * 2^k / d >= 2^23, for 0 < n / d < 2^23
RECURSIVE ScaleFor(_, _, _)
ScaleFor(n, d, k) == IF n \div d >= 2 ^ 23 THEN k ELSE ScaleFor(2 * n, d, k + 1)

\* n / d for n, d > 0 rounded to 24 significant bits, ties to even
RoundPos(n, d) ==
    IF IsPow2(d)
    THEN IF n < 2 ^ 24 THEN <<n, d>>
         ELSE Q(RoundShift(n, ShiftFor(n, 0)) * (2 ^ ShiftFor(n, 0)), d)
    ELSE LET k == ScaleFor(n, d, 0)
             q == (n * (2 ^ k)) \div d
             r == (n * (2 ^ k)) % d
         IN  Q(IF 2 * r > d \/ (2 * r = d /\ q % 2 = 1) THEN q + 1 ELSE q, 2 ^ k)

\* the f32 nearest to the real number a (the exponent range is not limited)
RoundF32(a) ==
    IF a[2] = 0 \/ a[1] = 0 THEN a
    ELSE IF a[1] < 0 THEN FNeg(RoundPos(-a[1], a[2]))
    ELSE RoundPos(a[1], a[2])

\* the f32 operations: the exact result, rounded
F32Add(a, b) == RoundF32(FAdd(a, b))

F32Sub(a, b) == RoundF32(FSub(a, b))

F32Mul(a, b) == RoundF32(FMul(a, b))

F32Div(a, b) == RoundF32(FDiv(a, b))

\* Texture::lerp_color, each operation rounded
lerp_color_f32(c1, c2, fac) ==
    [k \in 1..3 |-> Ch(F32Add(c1[k].x, F32Mul(F32Sub(c2[k].x, c1[k].x), fac)))]

\* the continuous pixel coordinate of sample along an axis of n texels,
\* without the clamp
TexelCoordUnclamped(n, val) == F32Mul(val, I(n - 1))

\* the continuous pixel coordinate of sample along an axis of n texels
TexelCoord(n, val) == F32Mul(clamp(I(0), I(1), val), I(n - 1))

\* the four bitmap reads <<row, column>> of sample at the pixel
\* coordinates tx, ty
SampleReads(tx, ty) ==
    <<<<AsUsize(FFloor(ty)), AsUsize(FFloor(tx))>>, <<AsUsize(FFloor(ty)), AsUsize(FCeil(tx))>>,
      <<AsUsize(FCeil(ty)), AsUsize(FFloor(tx))>>, <<AsUsize(FCeil(ty)), AsUsize(FCeil(tx))>>>>

\* is the read rc inside the bitmap of tex
ReadInRange(tex, rc) == InRange(tex.bitmap, rc[1]) /\ InRange(At(tex.bitmap, rc[1]), rc[2])

\* the bilinear interpolation of sample over the reads rd
SampleBlend(tex, rd, tx, ty) ==
    lerp_color_f32(
        lerp_color_f32(At(At(tex.bitmap, rd[1][1]), rd[1][2]), At(At(tex.bitmap, rd[2][1]), rd[2][2]), FFract(tx)),
        lerp_color_f32(At(At(tex.bitmap, rd[3][1]), rd[3][2]), At(At(tex.bitmap, rd[4][1]), rd[4][2]), FFract(tx)),
        FFract(ty))

\* sample from its pixel coordinates on: the reads, and the colour unless a
\* read is out of range
SampleAtCoords(tex, tx, ty, rd) ==
    IF \A k \in 1..4 : ReadInRange(tex, rd[k])
    THEN [panic |-> FALSE, reads |-> rd, color |-> SampleBlend(tex, rd, tx, ty)]
    ELSE [panic |-> TRUE, reads |-> rd, color |-> <<>>]

\* sample once tx and ty are computed
SampleCoords(tex, tx, ty) == SampleAtCoords(tex, tx, ty, SampleReads(tx, ty))

\* Texture::sample with every f32 operation rounded as the hardware does
sample_f32(tex, UV) == SampleCoords(tex, TexelCoord(tex.width, UV[1]), TexelCoord(tex.height, UV[2]))

\* a black and white bitmap as load_bitmap decodes it (channels 0/255 and
\* 255/255), in a checkerboard starting with phase
BitTexture(width, height, phase) ==
    [width |-> width, height |-> height,
     bitmap |-> [h \in 1..height |-> [w \in 1..width |->
        IF (h + w + phase) % 2 = 0 THEN RGB(I(0), I(0), I(0)) ELSE RGB(I(1), I(1), I(1))]]]

\* the textures sampled
SampleTextures ==
    {BitTexture(w, h, phase) : w \in 1..MaxTexWidth, h \in 1..MaxTexHeight, phase \in 0..1}

\* the f32 coordinates a caller computes for texel (row r, column c)
TexelUV(tex, r, c) == <<F32Div(I(c), I(tex.width - 1)), F32Div(I(r), I(tex.height - 1))>>

\* coordinates inside and outside [0, 1], the infinities and NaN
FreeCoords == {I(-1), I(0), Q(1, 2), I(1), I(2), NaN, <<1, 0>>, <<-1, 0>>}

\* a driver that holds a texture and samples it
SampleInit ==
    /\ \E tex \in SampleTextures : mesh = [MeshEmpty EXCEPT !.texture = tex]
    /\ last = [op |-> "construct", ctor |-> "texture"]
    /\ vp = ViewportNew(ViewWidth, ViewHeight, I(ViewFocal), Background)
    /\ status = "ok"
    /\ nops = 0
    /\ frame = <<>>

\* one call mesh.texture.sample(uv) on the texture as constructed (sample is
\* a pure function of the texture and uv); texel is <<r, c>> when uv was computed
\* as the coordinates of that texel, and <<>> otherwise
SampleCall(uv, texel) ==
    /\ status = "ok"
    /\ nops = 0
    /\ \E r \in {sample_f32(mesh.texture, uv)} :
           /\ status' = IF r.panic THEN "panic" ELSE "ok"
           /\ last' = [op |-> "sample", UV |-> uv, texel |-> texel, reads |-> r.reads, color |-> r.color]
    /\ nops' = nops + 1
    /\ UNCHANGED <<mesh, vp, frame>>

SampleTexel ==
    /\ mesh.texture.width >= 2
    /\ mesh.texture.height >= 2
    /\ \E r \in 0..(mesh.texture.height - 1) : \E c \in 0..(mesh.texture.width - 1) :
           SampleCall(TexelUV(mesh.texture, r, c), <<r, c>>)

SampleFree ==
    /\ mesh.texture.width >= 1
    /\ mesh.texture.height >= 1
    /\ \E u \in FreeCoords : \E v \in FreeCoords : SampleCall(<<u, v>>, <<>>)

SampleNext == SampleTexel \/ SampleFree

SampleSpec == SampleInit /\ [][SampleNext]_vars

\* ------------------------------------------------------------------------
\* Properties of Texture::sample
\* ------------------------------------------------------------------------
\* the texture sampled
Tex == mesh.texture

\* the last operation was a call of sample, returned or not
Sampled == last.op = "sample"

\* texel (row r, column c) of the texture, 0-based
Texel(r, c) == At(At(Tex.bitmap, r), c)

\* the corner cases and the range of the reads, common to C12 as stated and
\* as amended
SampleCorners ==
    Sampled =>
        /\ status = "ok"
        /\ \A k \in 1..4 : ReadInRange(Tex, last.reads[k])
        /\ last.UV = <<I(0), I(0)>> => last.color = Texel(0, 0)
        /\ last.UV = <<I(1), I(1)>> => last.color = Texel(Tex.height - 1, Tex.width - 1)

\* C12 as stated: sample returns the corner texels at (0,0) and (1,1), reads
\* in range for every (u,v), and at the coordinates u = c/(width-1),
\* v = r/(height-1) of texel (r, c) returns bitmap[r][c] exactly.
C12_SampleExact ==
    /\ SampleCorners
    /\ (Sampled /\ last.texel # <<>>) => last.color = Texel(last.texel[1], last.texel[2])

\* the f32 products u*(width-1) and v*(height-1) give exactly c and r
LandsOn(uv, r, c) ==
    /\ F32Mul(clamp(I(0), I(1), uv[1]), I(Tex.width - 1)) = I(c)
    /\ F32Mul(clamp(I(0), I(1), uv[2]), I(Tex.height - 1)) = I(r)

\* C12 amended: sample returns the corner texels at (0,0) and (1,1), reads in
\* range for every (u,v), and returns bitmap[r][c] exactly for every (u,v)
\* whose f32 products u*(width-1) and v*(height-1) are exactly c and r; the
\* f32 quotient c/(width-1) need not be such a u.
C12_SampleOnTexel ==
    /\ SampleCorners
    /\ Sampled => \A r \in 0..(Tex.height - 1) : \A c \in 0..(Tex.width - 1) :
                      LandsOn(last.UV, r, c) => last.color = Texel(r, c)

\* a texel other than a corner sampled at its coordinates and returned, and
\* in another call coordinates outside [0, 1]
C12_Witness ==
    /\ Sampled
    /\ status = "ok"
    /\ last.texel # <<>>
    /\ last.texel[2] \in 1..(Tex.width - 2)
    /\ LandsOn(last.UV, last.texel[1], last.texel[2])
    /\ last.color = Texel(last.texel[1], last.texel[2])

\* ------------------------------------------------------------------------
\* Properties of the projection
\* ------------------------------------------------------------------------
\* the screen positions of the vertices of m
Projected(m) == {project(vp, m.vertices[k]) : k \in 1..Len(m.vertices)}

\* every point of the set inner lies strictly inside the bounding box of
\* outer, on both screen axes
StrictlyInsideBox(inner, outer) ==
    \A p \in inner : \A axis \in 1..2 :
        /\ \E a \in outer : FLt(a[axis], p[axis])
        /\ \E b \in outer : FLt(p[axis], b[axis])

\* the point the projection maps every direction of infinite depth to
ScreenCentre == <<FMul(I(vp.width), Q(1, 2)), FMul(I(vp.height), Q(1, 2))>>

\* the last operation translated a mesh with vertices, all in front of the
\* camera (Z < 0), farther away along Z only
MovedAway ==
    /\ Did("transform")
    /\ last.tr.kind = "Translate"
    /\ last.tr.vec.X = I(0) /\ last.tr.vec.Y = I(0) /\ FLt(last.tr.vec.Z, I(0))
    /\ Len(Pre.vertices) >= 1
    /\ \A k \in 1..Len(Pre.vertices) : FLt(Pre.vertices[k].Z, I(0))

TowardCentre(q, p, c) ==
    \/ FLt(p, q) /\ FLt(q, c)
    \/ FLt(c, q) /\ FLt(q, p)
    \/ (p = c /\ q = c)

MaterialMissing ==
    [ambient |-> RGB(Q(3, 4), Q(3, 4), Q(3, 4)), diffuse |-> RGB(I(1), I(0), I(1)),
     specular |-> RGB(I(1), I(1), I(1)), highlights |-> 20, opacity |-> I(1)]

\* Color::add, which clamps each channel into [0, 1]
color_add(c1, c2) == [k \in 1..3 |-> Ch(clamp(I(0), I(1), FAdd(c1[k].x, c2[k].x)))]

\* Color::mul
color_mul(c, fac) == [k \in 1..3 |-> Ch(FMul(fac, c[k].x))]

\* the elementwise product of two colours
color_mul_elements(c1, c2) == [k \in 1..3 |-> Ch(FMul(c1[k].x, c2[k].x))]

\* Vector3D::reflect: self reflected across other
reflect(a, other) ==
    LET axis == normalize(other)
    IN  sub(a, mul(mul(axis, I(2)), dot(a, axis)))

\* f32::powf for a whole exponent
RECURSIVE powf(_, _)
powf(x, n) == IF n = 0 THEN I(1) ELSE FMul(x, powf(x, n - 1))

\* the contribution of one light to new_color
LightTerm(light, ambient, mtl, surface_normal) ==
    LET camera_direction == normalize(V(0, 0, 1))
        light_direction == normalize(light.position)
        diffuse_strength == clamp(I(0), I(1), dot(surface_normal, light_direction))
        diffuse == color_mul(mtl.diffuse, diffuse_strength)
        specular_source == reflect(mul(light_direction, I(-1)), surface_normal)
        specular_strength ==
            powf(clamp(I(0), I(1), dot(camera_direction, specular_source)), mtl.highlights)
        specular == color_mul(light.color, specular_strength)
    IN  color_add(color_add(color_mul(ambient, Q(1, 5)), color_mul(diffuse, Q(2, 5))),
                  color_mul(specular, Q(3, 5)))

\* new_color after the loop over the lights k.. of the viewport
RECURSIVE SumLights(_, _, _, _, _, _)
SumLights(new_color, lights, k, ambient, mtl, surface_normal) ==
    IF k > Len(lights) THEN new_color
    ELSE SumLights(color_add(new_color, LightTerm(lights[k], ambient, mtl, surface_normal)),
                   lights, k + 1, ambient, mtl, surface_normal)

\* the local new_color of apply_phong_shader in mode Flat or Smooth
NewColor(lights, base_color, mtl, surface_normal) ==
    SumLights(RGB(I(0), I(0), I(0)), lights, 1,
              color_mul_elements(base_color, mtl.ambient), mtl, surface_normal)

\* ------------------------------------------------------------------------
\* Properties of the shader
\* ------------------------------------------------------------------------
\* the fragments the depth test saw in the draw_mesh that just returned
LastTested ==
    LET r == DrawTriangles(last.vp, mesh).tested
    IN  UNION {r[k].tested : k \in 1..Len(r)}

\* the depth test let the fragment of event e through
Passed(e) == ~DepthSkip(e.frag, e.before)

\* the texture colour at the perspective-corrected UV of fragment f
BaseColor(f) ==
    sample(mesh.texture, <<FDiv(f.UV[1], f.inv_depth), FDiv(f.UV[2], f.inv_depth)>>)

\* the surface normals the shader can have used for fragment f: a normalized
\* face normal (Flat) or the normalized interpolated normal (Smooth)
SurfaceNormals(f) ==
    IF mesh.mode = "Flat"
    THEN {normalize(mesh.face_normals[t]) : t \in 1..Len(mesh.face_normals)}
    ELSE {normalize(f.normal)}

\* C14: in mode Flat or Smooth a fragment that passes the depth test gets
\* the colour summed over the lights of the viewport from the ambient,
\* diffuse and specular terms.
C14_LitColour ==
    (Did("draw_mesh") /\ mesh.mode \in {"Flat", "Smooth"}) =>
        \A e \in LastTested :
            Passed(e) =>
                \E n \in SurfaceNormals(e.frag) :
                    e.pixel_after = NewColor(vp.lights, BaseColor(e.frag), MaterialMissing, n)

\* C15: in mode None a fragment that passes the depth test gets exactly the
\* texture colour sampled at its UV divided by its interpolated inverse
\* depth, whatever the lights of the viewport and the normals of the mesh.
C15_UnlitColour ==
    (Did("draw_mesh") /\ mesh.mode = "None") =>
        \A e \in LastTested : Passed(e) => e.pixel_after = BaseColor(e.frag)

\* a draw in mode None on a viewport with a light wrote a fragment with a
\* nonzero normal and a perspective division that matters
C15_Witness ==
    /\ Did("draw_mesh")
    /\ mesh.mode = "None"
    /\ Len(vp.lights) > 0
    /\ \E e \in LastTested :
          /\ Passed(e)
          /\ e.frag.normal # zero
          /\ e.frag.inv_depth # I(1)
          /\ e.pixel_after # e.pixel_before
          /\ vp.pixel_buffer[e.y + 1][e.x + 1] = BaseColor(e.frag)

\* ------------------------------------------------------------------------
\* Mesh::transform in f32 arithmetic
\* ------------------------------------------------------------------------
\* Vector3D::add, ::sub and ::mul_elements with every operation rounded
add_f32(a, b) == XYZ(F32Add(a.X, b.X), F32Add(a.Y, b.Y), F32Add(a.Z, b.Z))

sub_f32(a, b) == XYZ(F32Sub(a.X, b.X), F32Sub(a.Y, b.Y), F32Sub(a.Z, b.Z))

mul_elements_f32(a, b) == XYZ(F32Mul(a.X, b.X), F32Mul(a.Y, b.Y), F32Mul(a.Z, b.Z))

\* Mesh::transform with a Translate that forgets the origin
transform_f32_origin_kept(m, tr) ==
    IF tr.kind = "RotateZ"
    THEN [m EXCEPT !.vertices =
            [k \in 1..Len(m.vertices) |->
                add_f32(rotate_z(sub_f32(m.vertices[k], m.origin), tr.angle), m.origin)]]
    ELSE IF tr.kind = "Translate"
    THEN [m EXCEPT !.vertices = [k \in 1..Len(m.vertices) |-> add_f32(m.vertices[k], tr.vec)]]
    ELSE [m EXCEPT !.vertices =
            [k \in 1..Len(m.vertices) |->
                add_f32(mul_elements_f32(sub_f32(m.vertices[k], m.origin), tr.vec), m.origin)]]

\* Mesh::transform with a Scale about the world origin
transform_f32_world_origin(m, tr) ==
    IF tr.kind = "RotateZ"
    THEN [m EXCEPT !.vertices =
            [k \in 1..Len(m.vertices) |->
                add_f32(rotate_z(sub_f32(m.vertices[k], m.origin), tr.angle), m.origin)]]
    ELSE IF tr.kind = "Translate"
    THEN [m EXCEPT !.origin = add_f32(m.origin, tr.vec),
                   !.vertices = [k \in 1..Len(m.vertices) |-> add_f32(m.vertices[k], tr.vec)]]
    ELSE [m EXCEPT !.vertices =
            [k \in 1..Len(m.vertices) |-> mul_elements_f32(m.vertices[k], tr.vec)]]

\* Mesh::transform with every f32 operation rounded
transform_f32(m, tr) ==
    IF tr.kind = "RotateZ"
    THEN [m EXCEPT !.vertices =
            [k \in 1..Len(m.vertices) |->
                add_f32(rotate_z(sub_f32(m.vertices[k], m.origin), tr.angle), m.origin)]]
    ELSE IF tr.kind = "Translate"
    THEN [m EXCEPT !.origin = add_f32(m.origin, tr.vec),
                   !.vertices = [k \in 1..Len(m.vertices) |-> add_f32(m.vertices[k], tr.vec)]]
    ELSE [m EXCEPT !.vertices =
            [k \in 1..Len(m.vertices) |->
                add_f32(mul_elements_f32(sub_f32(m.vertices[k], m.origin), tr.vec), m.origin)]]

\* at most this many transforms are applied to a mesh
MaxTransforms == 3

\* f32 coordinates of loaded vertices: 0, 1/2, 1 and 1 + 2^-23, the f32
\* next above 1
FineValues == {I(0), Q(1, 2), I(1), Q(2 ^ 23 + 1, 2 ^ 23)}

\* loaded vertices: the point at the origin and points in front of the camera
FineVertices == {zero} \cup {XYZ(x, I(0), I(-2)) : x \in FineValues}

\* loaded meshes of one or two vertices and no triangle
FineMeshes ==
    {MeshLoaded(<<a>>, <<>>, <<>>, <<>>) : a \in FineVertices}
    \cup {MeshLoaded(<<a, b>>, <<>>, <<>>, <<>>) : a \in FineVertices, b \in FineVertices}

\* the transforms applied, among them a translation and its inverse, and a
\* translation by -(1 - 2^-24), the f32 next above -1
FineTransforms ==
    {[kind |-> "Translate", vec |-> V(1, 0, 0)],
     [kind |-> "Translate", vec |-> V(-1, 0, 0)],
     [kind |-> "Translate", vec |-> V(0, 0, -1)],
     [kind |-> "Translate", vec |-> XYZ(Q(1 - 2 ^ 24, 2 ^ 24), I(0), I(0))],
     [kind |-> "Scale", vec |-> V(2, 2, 2)],
     [kind |-> "Scale", vec |-> V(1, 1, 1)],
     [kind |-> "RotateZ", angle |-> 1]}

\* a driver that loads a mesh and transforms it; frame logs each transform
\* together with the mesh it was applied to
TransformInit ==
    /\ mesh \in FineMeshes
    /\ last = [op |-> "construct", ctor |-> "load_object"]
    /\ vp = ViewportNew(ViewWidth, ViewHeight, I(ViewFocal), Background)
    /\ status = "ok"
    /\ nops = 0
    /\ frame = <<>>

TransformF32(tr) ==
    /\ status = "ok"
    /\ nops < MaxTransforms
    /\ mesh' = transform_f32(mesh, tr)
    /\ nops' = nops + 1
    /\ last' = [op |-> "transform", tr |-> tr, mesh |-> mesh]
    /\ frame' = Append(frame, [kind |-> "transform", tr |-> tr, mesh |-> mesh])
    /\ UNCHANGED <<vp, status>>

TransformNext == \E tr \in FineTransforms : TransformF32(tr)

TransformSpec == TransformInit /\ [][TransformNext]_vars

\* ------------------------------------------------------------------------
\* Properties of Mesh::transform
\* ------------------------------------------------------------------------
\* the mesh as it was loaded
Loaded == IF frame = <<>> THEN mesh ELSE frame[1].mesh

\* the exact sum of the Translate vectors among the first n logged transforms
RECURSIVE NetTranslation(_)
NetTranslation(n) ==
    IF n = 0 THEN zero
    ELSE IF frame[n].tr.kind = "Translate" THEN add(NetTranslation(n - 1), frame[n].tr.vec)
    ELSE NetTranslation(n - 1)

\* the last two transforms were Translate(v) and Translate(-v)
TranslatedBack ==
    /\ Len(frame) >= 2
    /\ frame[Len(frame) - 1].tr.kind = "Translate"
    /\ frame[Len(frame)].tr.kind = "Translate"
    /\ frame[Len(frame)].tr.vec = mul(frame[Len(frame) - 1].tr.vec, I(-1))

\* the mesh before the Translate(v) of a TranslatedBack state
BeforeTranslate == frame[Len(frame) - 1].mesh

\* the real number a is an f32
Representable(a) == RoundF32(a) = a

RepresentableVec(a) == Representable(a.X) /\ Representable(a.Y) /\ Representable(a.Z)

Scaled == Did("transform") /\ last.tr.kind = "Scale"

\* origin + (p - origin)*s, elementwise, as a real number
ScaledAbout(p, origin, s) == add(origin, mul_elements(sub(p, origin), s))

\* no step of the f32 evaluation of origin + (p - origin)*s is rounded
ScalesExactly(p, origin, s) ==
    /\ RepresentableVec(sub(p, origin))
    /\ RepresentableVec(mul_elements(sub(p, origin), s))
    /\ RepresentableVec(ScaledAbout(p, origin, s))

\* C17 as stated: Scale(s) maps every vertex p to origin + (p - origin)*s
\* about the current origin, fixes a vertex at the origin, leaves the origin
\* unchanged, and Scale((1,1,1)) leaves every vertex unchanged, also after
\* earlier Translate calls.
C17_ScaleExact ==
    Scaled =>
        /\ \A k \in 1..Len(Pre.vertices) :
               /\ mesh.vertices[k] = ScaledAbout(Pre.vertices[k], Pre.origin, last.tr.vec)
               /\ Pre.vertices[k] = Pre.origin => mesh.vertices[k] = Pre.vertices[k]
        /\ mesh.origin = Pre.origin
        /\ last.tr.vec = V(1, 1, 1) => mesh.vertices = Pre.vertices

\* C17 amended: Scale(s) evaluates origin + (p - origin)*s in f32 about the
\* current origin, so the result is that value where no step is rounded; a
\* vertex at the origin stays fixed and the origin is unchanged; and
\* Scale((1,1,1)) leaves unchanged every vertex whose difference from the
\* origin is an f32.
C17_ScaleRounded ==
    Scaled =>
        /\ \A k \in 1..Len(Pre.vertices) :
               /\ ScalesExactly(Pre.vertices[k], Pre.origin, last.tr.vec)
                      => mesh.vertices[k] = ScaledAbout(Pre.vertices[k], Pre.origin, last.tr.vec)
               /\ Pre.vertices[k] = Pre.origin => mesh.vertices[k] = Pre.vertices[k]
               /\ (last.tr.vec = V(1, 1, 1) /\ RepresentableVec(sub(Pre.vertices[k], Pre.origin)))
                      => mesh.vertices[k] = Pre.vertices[k]
        /\ mesh.origin = Pre.origin
        /\ Len(mesh.vertices) = Len(Pre.vertices)

\* a mesh whose origin an earlier Translate moved was scaled by 2: the vertex
\* at the origin stayed and another vertex moved away from the origin
C17_Witness ==
    /\ Scaled
    /\ last.tr.vec = V(2, 2, 2)
    /\ Pre.origin # zero
    /\ \E k \in 1..Len(Pre.vertices) :
          Pre.vertices[k] = Pre.origin /\ mesh.vertices[k] = Pre.origin
    /\ \E k \in 1..Len(Pre.vertices) :
          /\ Pre.vertices[k] # Pre.origin
          /\ mesh.vertices[k] # Pre.vertices[k]
          /\ mesh.vertices[k] = ScaledAbout(Pre.vertices[k], Pre.origin, last.tr.vec)

\* ------------------------------------------------------------------------
\* Properties of the attributes of clipped vertices
\* ------------------------------------------------------------------------
\* the edges <<t, o, i>> of Pre cut by the plane: corner o of triangle t is
\* outside and corner i inside
CutEdges ==
    {e \in (1..Len(Pre.triangles)) \X (1..3) \X (1..3) :
        /\ e[1] \in WithInside(Pre, Pl, 1) \cup WithInside(Pre, Pl, 2)
        /\ e[2] \notin KeptCorners(Pre, e[1], Pl)
        /\ e[3] \in KeptCorners(Pre, e[1], Pl)}

\* the intersection parameter of the cut edge e, from its outside corner
EdgeFac(e) ==
    line_intersect_plane(Corner(Pre, e[1], e[2]), Corner(Pre, e[1], e[3]), Pl.pos, Pl.normal)

\* the vertex normal at corner p of triangle t of Pre
CornerNormal(t, p) == At(Pre.vertex_normals, Pre.triangles[t][p])

\* the texture coordinate at corner p of triangle t of Pre, through tex_tris
CornerUV(t, p) == At(Pre.tex_coords, Pre.tex_tris[t][p])

\* vertex idx of the result has the position and, if asked for, the normal
\* interpolated along the cut edge e, and an appended texture coordinate is
\* interpolated along e with the same parameter
InterpolatedAlong(idx, e, normals) ==
    /\ At(mesh.vertices, idx) = lerp_vec(Corner(Pre, e[1], e[2]), Corner(Pre, e[1], e[3]), EdgeFac(e))
    /\ normals =>
           At(mesh.vertex_normals, idx)
               = lerp_vec(CornerNormal(e[1], e[2]), CornerNormal(e[1], e[3]), EdgeFac(e))
    /\ \E j \in Len(Pre.tex_coords)..(Len(mesh.tex_coords) - 1) :
           At(mesh.tex_coords, j) = lerp_uv(CornerUV(e[1], e[2]), CornerUV(e[1], e[3]), EdgeFac(e))

\* the indices of the vertices appended by the clip that just returned
NewVertices == Len(Pre.vertices)..(Len(mesh.vertices) - 1)

\* C18: every intersection vertex created by clip_against_plane has its
\* position, its vertex normal and a texture coordinate interpolated along
\* one cut edge from the outside to the inside corner, all three with the
\* intersection parameter of that edge.
C18_AttributesInterpolated ==
    (Did("clip_against_plane") /\ MeshInvariant(Pre)) =>
        \A idx \in NewVertices : \E e \in CutEdges : InterpolatedAlong(idx, e, TRUE)

\* ------------------------------------------------------------------------
\* Properties of recalculate_normals
\* ------------------------------------------------------------------------
\* the mesh m with all face and vertex normals reset to zero
ZeroNormals(m) ==
    [m EXCEPT !.face_normals = Repeat(zero, Len(m.face_normals)),
              !.vertex_normals = Repeat(zero, Len(m.vertex_normals))]

\* C19: the normals recalculate_normals leaves (called directly, or by
\* draw_mesh after its clip) are those it computes on the same vertices and
\* triangles with all normals zero: they do not depend on the normals stored
\* before the call.
C19_NormalsFromGeometry ==
    (Recalculated /\ MeshInvariant(mesh)) =>
        /\ mesh.face_normals = recalculate_normals(ZeroNormals(mesh)).face_normals
        /\ mesh.vertex_normals = recalculate_normals(ZeroNormals(mesh)).vertex_normals

\* ------------------------------------------------------------------------
\* Properties of the payload of draw_mesh
\* ------------------------------------------------------------------------
\* the triangles (0..) of the mesh that the draw_mesh that just returned
\* built payloads for
Drawable == {t \in 0..(Len(mesh.triangles) - 1) : ~Culled(mesh, t)}

\* corner k (1..3) of triangle t (0..) of the mesh: position, texture
\* coordinate and vertex normal
PayloadPos(t, k) == At(mesh.vertices, At(mesh.triangles, t)[k])

PayloadUV(t, k) == At(mesh.tex_coords, At(mesh.tex_tris, t)[k])

PayloadNormal(t, k) == At(mesh.vertex_normals, At(mesh.triangles, t)[k])

\* C20: the payload draw_mesh builds for each corner of a triangle carries
\* the corner's UV, world position and normal, each divided by the corner's
\* own Z, and inv_depth = 1/Z of that corner.
C20_PayloadPreDivided ==
    (Did("draw_mesh") /\ MeshInvariant(mesh)) =>
        \A t \in Drawable : \A k \in 1..3 :
            /\ Payload(last.vp, mesh, t)[k].UV
                   = <<FDiv(PayloadUV(t, k)[1], PayloadPos(t, k).Z),
                       FDiv(PayloadUV(t, k)[2], PayloadPos(t, k).Z)>>
            /\ Payload(last.vp, mesh, t)[k].worldXYZ = div(PayloadPos(t, k), PayloadPos(t, k).Z)
            /\ Payload(last.vp, mesh, t)[k].normal = div(PayloadNormal(t, k), PayloadPos(t, k).Z)
            /\ Payload(last.vp, mesh, t)[k].inv_depth = FDiv(I(1), PayloadPos(t, k).Z)

\* ------------------------------------------------------------------------
\* Properties of the triangle loop of clip_against_plane
\* ------------------------------------------------------------------------
\* the marks tris_to_remove and the mesh at the end of the triangle loop of
\* the clip that just returned
Pass == ClipPass(Pre, Pl.pos, Pl.normal)

\* the triangles (1..) of Pre the loop has to mark: all but those wholly on
\* the kept side
ToMark == (1..Len(Pre.triangles)) \ WithInside(Pre, Pl, 3)

\* C21: clip_against_plane visits exactly the triangles present at entry,
\* each once: the marks are distinct positions of those triangles, one for
\* every triangle not wholly inside; it appends one triangle per one-inside
\* and two per two-inside triangle, marks none of them, and all of them are
\* in the result, after the unmarked triangles.
C21_LoopOverInitialTriangles ==
    Did("clip_against_plane") =>
        /\ ~Pass.panic
        /\ \A k \in 1..Len(Pass.tris_to_remove) : Pass.tris_to_remove[k] < Len(Pre.triangles)
        /\ \A j \in 1..Len(Pass.tris_to_remove) : \A k \in 1..Len(Pass.tris_to_remove) :
               j < k => Pass.tris_to_remove[j] < Pass.tris_to_remove[k]
        /\ {Pass.tris_to_remove[k] + 1 : k \in 1..Len(Pass.tris_to_remove)} = ToMark
        /\ Len(Pass.m.triangles) = Len(Pre.triangles) + Cardinality(WithInside(Pre, Pl, 1))
                                       + 2 * Cardinality(WithInside(Pre, Pl, 2))
        /\ Len(mesh.triangles) = Len(Pass.m.triangles) - Cardinality(ToMark)
        /\ \A k \in (Len(Pre.triangles) + 1)..Len(Pass.m.triangles) :
               mesh.triangles[k - Cardinality(ToMark)] = Pass.m.triangles[k]

\* a clip that removed a triangle wholly outside and cut another, so that
\* appended triangles stand behind marked ones
C21_Witness ==
    /\ Did("clip_against_plane")
    /\ WithInside(Pre, Pl, 0) # {}
    /\ WithInside(Pre, Pl, 1) \cup WithInside(Pre, Pl, 2) # {}
    /\ Len(Pass.m.triangles) > Len(Pre.triangles)
    /\ Len(mesh.triangles) >= 1

\* ------------------------------------------------------------------------
\* Properties of the order of steps in draw_mesh
\* ------------------------------------------------------------------------
\* the near plane as a plane record
NearPlane == [pos |-> NearPlanePos, normal |-> NearPlaneNormal]

\* the triangles (1..) of the mesh that the clip of the draw_mesh that just
\* returned created: they stand behind the untouched ones
CreatedByClip == (Cardinality(WithInside(Pre, NearPlane, 3)) + 1)..Len(mesh.triangles)

\* C22: draw_mesh clips against the near plane, then recalculates the
\* normals, and only then tests, projects and shades the triangles: the mesh
\* it leaves is the recalculated clipped mesh, the viewport and the fragments
\* are those of the triangle loop run on that mesh, and every triangle the
\* clip created has its recalculated face normal, not the zero placeholder.
C22_ClipRecalcThenDraw ==
    Did("draw_mesh") =>
        /\ mesh = recalculate_normals(clip_against_plane(Pre, NearPlanePos, NearPlaneNormal).m)
        /\ vp = DrawTriangles(last.vp, mesh).v
        /\ Len(frame) >= Len(DrawTriangles(last.vp, mesh).tested)
        /\ SubSeq(frame, Len(frame) - Len(DrawTriangles(last.vp, mesh).tested) + 1, Len(frame))
               = DrawTriangles(last.vp, mesh).tested
        /\ \A t \in CreatedByClip :
               /\ mesh.face_normals[t] # zero
               /\ mesh.face_normals[t] = normalize(FaceNormal(mesh, t))

\* a draw_mesh whose clip created a triangle that was then drawn: it passed
\* the backface test with a nonzero face normal and produced fragments
C22_Witness ==
    /\ Did("draw_mesh")
    /\ CreatedByClip # {}
    /\ \E t \in CreatedByClip :
          /\ ~Culled(mesh, t - 1)
          /\ mesh.face_normals[t] # zero
          /\ WellDefined(mesh.face_normals[t])
    /\ LastTested # {}

\* ------------------------------------------------------------------------
\* Properties of the intersection parameter
\* ------------------------------------------------------------------------
\* the normal clip_against_plane works with
UnitNormal == normalize(Pl.normal)

\* the intersection parameter of the cut edge e as clip_against_plane
\* computes it, with the normalized normal
CutFac(e) ==
    line_intersect_plane(Corner(Pre, e[1], e[2]), Corner(Pre, e[1], e[3]), Pl.pos, UnitNormal)

\* the denominator dot(end, n) - dot(start, n) of the cut edge e
CutDenominator(e) ==
    FSub(dot(Corner(Pre, e[1], e[3]), UnitNormal), dot(Corner(Pre, e[1], e[2]), UnitNormal))

\* the number c lies between a and b
Between(c, a, b) == (FLe(a, c) /\ FLe(c, b)) \/ (FLe(b, c) /\ FLe(c, a))

\* the point v lies in the box spanned by a and b
InSegmentBox(v, a, b) ==
    Between(v.X, a.X, b.X) /\ Between(v.Y, a.Y, b.Y) /\ Between(v.Z, a.Z, b.Z)

\* the point v lies on the plane Pl
OnPlane(v) == dot(v, UnitNormal) = dot(Pl.pos, UnitNormal)

dot_f32(a, b) == F32Add(F32Add(F32Mul(a.X, b.X), F32Mul(a.Y, b.Y)), F32Mul(a.Z, b.Z))

\* f32::sqrt: the root, exact when rational and else taken as FSqrt gives
\* it, rounded
sqrt_f32(a) == RoundF32(FSqrt(a))

\* Vector3D::normalize, each operation rounded
normalize_f32(a) ==
    XYZ(F32Div(a.X, sqrt_f32(dot_f32(a, a))),
        F32Div(a.Y, sqrt_f32(dot_f32(a, a))),
        F32Div(a.Z, sqrt_f32(dot_f32(a, a))))

\* Viewport::line_intersect_plane, each operation rounded
line_intersect_plane_f32(start, end, plane_pos, plane_normal) ==
    F32Div(F32Sub(dot_f32(plane_pos, plane_normal), dot_f32(start, plane_normal)),
           F32Sub(dot_f32(end, plane_normal), dot_f32(start, plane_normal)))

\* Vector3D::mul by a factor, each product rounded
mul_f32(a, fac) == XYZ(F32Mul(fac, a.X), F32Mul(fac, a.Y), F32Mul(fac, a.Z))

\* self.add(other.sub(self).mul(fac)), each operation rounded
lerp_vec_f32(from, to, fac) == add_f32(from, mul_f32(sub_f32(to, from), fac))

\* the interpolated texture coordinate, each operation rounded
lerp_uv_f32(from, to, fac) ==
    <<F32Add(from[1], F32Mul(F32Sub(to[1], from[1]), fac)),
      F32Add(from[2], F32Mul(F32Sub(to[2], from[2]), fac))>>

\* the scan of new_verts for a vertex within 0.01 of the location i
MergeScanF32(vertices, new_verts, i) ==
    MergeFound(new_verts,
               {k \in 1..Len(new_verts) :
                    FLe(sqrt_f32(dot_f32(sub_f32(At(vertices, new_verts[k]), i),
                                         sub_f32(At(vertices, new_verts[k]), i))),
                        RoundF32(MergeEps))})

\* does the vertex v pass the test `vertex.dot(normal) >= plane_pos.dot(normal)`
PassesF32(v, plane_pos, normal) == FGe(dot_f32(v, normal), dot_f32(plane_pos, normal))

\* the `inside` and `outside` Vecs of corner positions of triangle t
SidesF32(m, t, plane_pos, normal) ==
    [inside |-> SelectSeq(<<0, 1, 2>>,
                    LAMBDA p : PassesF32(At(m.vertices, At(m.triangles, t)[p + 1]), plane_pos, normal)),
     outside |-> SelectSeq(<<0, 1, 2>>,
                    LAMBDA p : ~PassesF32(At(m.vertices, At(m.triangles, t)[p + 1]), plane_pos, normal))]

\* match arm `1 =>`, the tex_coords pushed and the writes
EmitOneInsideF32(st, t, inside, outside, fac1, fac2, pu) ==
    LET m == st.m
        tri == At(m.triangles, t)
        ttri == At(m.tex_tris, t)
        tp1 == ttri[inside[1] + 1]
        tp2 == ttri[outside[1] + 1]
        tp3 == ttri[outside[2] + 1]
        new_tri == Tri3(inside[1], tri[inside[1] + 1], outside[1], pu.idx1, outside[2], pu.idx2)
        tex_tri == Tri3(inside[1], tp1, outside[1], Len(m.tex_coords), outside[2], Len(m.tex_coords) + 1)
    IN  IF ~(InRange(m.tex_coords, tp1) /\ InRange(m.tex_coords, tp2))
        THEN [st EXCEPT !.panic = TRUE]
        ELSE
        LET tc1 == Append(m.tex_coords, lerp_uv_f32(At(m.tex_coords, tp2), At(m.tex_coords, tp1), fac1))
        IN  IF ~InRange(tc1, tp3) THEN [st EXCEPT !.panic = TRUE]
            ELSE [st EXCEPT
                    !.m.vertices = pu.vertices,
                    !.m.vertex_normals = pu.vertex_normals,
                    !.new_verts = pu.new_verts,
                    !.m.tex_coords = Append(tc1, lerp_uv_f32(At(tc1, tp3), At(tc1, tp1), fac2)),
                    !.m.face_normals = Append(m.face_normals, zero),
                    !.m.tex_tris = Append(m.tex_tris, tex_tri),
                    !.m.triangles = Append(m.triangles, new_tri),
                    !.tris_to_remove = Append(st.tris_to_remove, t)]

\* match arm `1 =>`: the intersection points i1, i2 at the factors fac1,
\* fac2, scanned for and pushed
CutOneInsideF32(st, t, inside, outside, fac1, fac2, i1, i2) ==
    EmitOneInsideF32(st, t, inside, outside, fac1, fac2,
                     PushScanned(st.m, st.new_verts, i1, i2,
                                 MergeScanF32(st.m.vertices, st.new_verts, i1),
                                 MergeScanF32(st.m.vertices, st.new_verts, i2)))

\* match arm `1 =>`: one corner inside
ClipOneInsideF32(st, t, inside, outside, plane_pos, normal) ==
    LET m == st.m
        tri == At(m.triangles, t)
        p1 == At(m.vertices, tri[inside[1] + 1])
        p2 == At(m.vertices, tri[outside[1] + 1])
        p3 == At(m.vertices, tri[outside[2] + 1])
    IN  IF ~InRange(m.tex_tris, t) THEN [st EXCEPT !.panic = TRUE]
        ELSE \* fac1, fac2, then i1, i2
             LET fac1 == line_intersect_plane_f32(p2, p1, plane_pos, normal)
                 fac2 == line_intersect_plane_f32(p3, p1, plane_pos, normal)
             IN  CutOneInsideF32(st, t, inside, outside, fac1, fac2,
                                 lerp_vec_f32(p2, p1, fac1), lerp_vec_f32(p3, p1, fac2))

\* match arm `2 =>`, the tex_coords pushed and the writes
EmitTwoInsideF32(st, t, inside, outside, fac1, fac2, pu) ==
    LET m == st.m
        tri == At(m.triangles, t)
        ttri == At(m.tex_tris, t)
        p1 == tri[inside[1] + 1]
        p2 == tri[inside[2] + 1]
        tp1 == ttri[inside[1] + 1]
        tp2 == ttri[inside[2] + 1]
        tp3 == ttri[outside[1] + 1]
        new_tri1 == Tri3(inside[1], p1, inside[2], p2, outside[1], pu.idx1)
        new_tri2 == Tri3(inside[1], pu.idx1, inside[2], p2, outside[1], pu.idx2)
        tex_tri1 == Tri3(inside[1], tp1, inside[2], tp2, outside[1], Len(m.tex_coords))
        tex_tri2 == Tri3(inside[1], Len(m.tex_coords), inside[2], tp2, outside[1], Len(m.tex_coords) + 1)
    IN  IF ~(InRange(m.tex_coords, tp3) /\ InRange(m.tex_coords, tp1))
        THEN [st EXCEPT !.panic = TRUE]
        ELSE
        LET tc1 == Append(m.tex_coords, lerp_uv_f32(At(m.tex_coords, tp3), At(m.tex_coords, tp1), fac1))
        IN  IF ~InRange(tc1, tp2) THEN [st EXCEPT !.panic = TRUE]
            ELSE [st EXCEPT
                    !.m.vertices = pu.vertices,
                    !.m.vertex_normals = pu.vertex_normals,
                    !.new_verts = pu.new_verts,
                    !.m.tex_coords = Append(tc1, lerp_uv_f32(At(tc1, tp3), At(tc1, tp2), fac2)),
                    !.m.face_normals = Append(Append(m.face_normals, zero), zero),
                    !.m.tex_tris = Append(Append(m.tex_tris, tex_tri1), tex_tri2),
                    !.m.triangles = Append(Append(m.triangles, new_tri1), new_tri2),
                    !.tris_to_remove = Append(st.tris_to_remove, t)]

\* match arm `2 =>`: the intersection points i1, i2 at the factors fac1,
\* fac2, scanned for and pushed
CutTwoInsideF32(st, t, inside, outside, fac1, fac2, i1, i2) ==
    EmitTwoInsideF32(st, t, inside, outside, fac1, fac2,
                     PushScanned(st.m, st.new_verts, i1, i2,
                                 MergeScanF32(st.m.vertices, st.new_verts, i1),
                                 MergeScanF32(st.m.vertices, st.new_verts, i2)))

\* match arm `2 =>`: two corners inside
ClipTwoInsideF32(st, t, inside, outside, plane_pos, normal) ==
    LET m == st.m
        tri == At(m.triangles, t)
        p1 == At(m.vertices, tri[inside[1] + 1])
        p2 == At(m.vertices, tri[inside[2] + 1])
        p3 == At(m.vertices, tri[outside[1] + 1])
    IN  IF ~InRange(m.tex_tris, t) THEN [st EXCEPT !.panic = TRUE]
        ELSE LET fac1 == line_intersect_plane_f32(p3, p1, plane_pos, normal)
                 fac2 == line_intersect_plane_f32(p3, p2, plane_pos, normal)
             IN  CutTwoInsideF32(st, t, inside, outside, fac1, fac2,
                                 lerp_vec_f32(p3, p1, fac1), lerp_vec_f32(p3, p2, fac2))

\* the `match inside.len()` with the arm `0 =>` taken for three corners
\* inside as well
ClipByCountF32RemovingInside(st, t, sides, plane_pos, normal) ==
    IF Len(sides.inside) = 0 \/ Len(sides.inside) = 3
    THEN [st EXCEPT !.tris_to_remove = Append(st.tris_to_remove, t)]
    ELSE IF Len(sides.inside) = 1
    THEN ClipOneInsideF32(st, t, sides.inside, sides.outside, plane_pos, normal)
    ELSE ClipTwoInsideF32(st, t, sides.inside, sides.outside, plane_pos, normal)

\* the `match inside.len()` of the loop body
ClipByCountF32(st, t, sides, plane_pos, normal) ==
    IF Len(sides.inside) = 0 THEN [st EXCEPT !.tris_to_remove = Append(st.tris_to_remove, t)]
    ELSE IF Len(sides.inside) = 1
    THEN ClipOneInsideF32(st, t, sides.inside, sides.outside, plane_pos, normal)
    ELSE IF Len(sides.inside) = 2
    THEN ClipTwoInsideF32(st, t, sides.inside, sides.outside, plane_pos, normal)
    ELSE st

\* the triangle loop; its range is fixed to the n triangles present at entry
RECURSIVE ClipLoopF32(_, _, _, _, _)
ClipLoopF32(st, t, n, plane_pos, normal) ==
    IF t >= n \/ st.panic THEN st
    ELSE IF \E p \in 1..3 : ~InRange(st.m.vertices, At(st.m.triangles, t)[p])
    THEN [st EXCEPT !.panic = TRUE]
    ELSE ClipLoopF32(ClipByCountF32(st, t, SidesF32(st.m, t, plane_pos, normal), plane_pos, normal),
                     t + 1, n, plane_pos, normal)

\* Viewport::clip_against_plane in f32: [m |-> the mesh after the call,
\* panic |-> it aborted]
clip_against_plane_f32(m, plane_pos, plane_normal) ==
    ClipFinish(ClipLoopF32([m |-> m, tris_to_remove |-> <<>>, new_verts |-> <<>>, panic |-> FALSE],
                           0, Len(m.triangles), plane_pos, normalize_f32(plane_normal)))

\* at most this many clips are applied to a mesh
MaxClips == 1

\* depths of loaded vertices: before the near plane, on it and beyond it
ClipDepths == {I(0), I(-1), I(-3), Q(-37, 8), I(-5)}

\* loaded meshes of one textured triangle
ClipMeshes ==
    {MeshLoaded(<<XYZ(I(-1), I(0), za), XYZ(I(1), I(0), zb), XYZ(I(0), I(1), zc)>>,
                <<<<0, 1, 2>>>>, InputTexCoords, <<<<1, 2, 0>>>>) :
        za \in ClipDepths, zb \in ClipDepths, zc \in ClipDepths}

\* the planes clipped against: the near plane of draw_mesh and main, and the
\* same plane given by a longer normal
ClipPlanes ==
    {[pos |-> NearPlanePos, normal |-> NearPlaneNormal],
     [pos |-> NearPlanePos, normal |-> V(0, 0, -2)]}

\* a driver that loads a mesh and clips it
ClipInit ==
    /\ mesh \in ClipMeshes
    /\ last = [op |-> "construct", ctor |-> "load_object"]
    /\ vp = ViewportNew(ViewWidth, ViewHeight, I(ViewFocal), Background)
    /\ status = "ok"
    /\ nops = 0
    /\ frame = <<>>

ClipF32(pl) ==
    /\ status = "ok"
    /\ nops < MaxClips
    /\ \E r \in {clip_against_plane_f32(mesh, pl.pos, pl.normal)} :
           /\ mesh' = IF r.panic THEN mesh ELSE r.m
           /\ status' = IF r.panic THEN "panic" ELSE "ok"
    /\ nops' = nops + 1
    /\ last' = [op |-> "clip_against_plane", plane |-> pl, mesh |-> mesh]
    /\ UNCHANGED <<vp, frame>>

ClipNext == \E pl \in ClipPlanes : ClipF32(pl)

ClipSpec == ClipInit /\ [][ClipNext]_vars

\* ------------------------------------------------------------------------
\* Clipping the output of a clip again
\* ------------------------------------------------------------------------
\* the corners of triangles of the current mesh that fail the inside test
\* of the plane of the last clip
FailingCorners ==
    {<<t, p>> \in (1..Len(mesh.triangles)) \X (1..3) :
        ~PassesF32(At(mesh.vertices, mesh.triangles[t][p]), Pl.pos, normalize_f32(Pl.normal))}

\* the clip of the current mesh against the plane of the last clip
Again == clip_against_plane_f32(mesh, Pl.pos, Pl.normal)

\* the second clip returned and left every field of the mesh as it was
LeftAsItWas ==
    /\ ~Again.panic
    /\ Again.m = mesh

\* C24 as stated: clipping the output of clip_against_plane against the
\* same plane again removes and adds nothing; in particular no corner of a
\* triangle of the output fails the inside test, as a triangle with such a
\* corner is removed or cut.
C24_ClipIdempotent ==
    Did("clip_against_plane") => (FailingCorners = {} /\ LeftAsItWas)

\* C24: clipping the output of clip_against_plane against the same plane
\* again leaves triangles, tex_tris, vertices, tex_coords and the normals
\* exactly as after the first call whenever every corner of the output
\* passes the inside test in f32; an intersection vertex rounded to the
\* outer side of the plane makes the output fail it.
C24_IdempotentWhenInside ==
    (Did("clip_against_plane") /\ FailingCorners = {}) => LeftAsItWas

\* a clip that cut a triangle, all of whose output passes the inside test
C24_Witness ==
    /\ Did("clip_against_plane")
    /\ NewVertices # {}
    /\ Len(mesh.triangles) > 0
    /\ FailingCorners = {}
    /\ LeftAsItWas

\* a clip that cut a triangle and left a corner on the outer side
C24_Rounded ==
    /\ Did("clip_against_plane")
    /\ FailingCorners # {}

\* ------------------------------------------------------------------------
\* Properties of the depth buffer between two clears
\* ------------------------------------------------------------------------
\* the positions in frame of the triangles that tested a fragment at (x, y)
TestedAt(x, y) ==
    {k \in 1..Len(frame) :
        frame[k].kind = "triangle" /\ \E e \in frame[k].tested : e.x = x /\ e.y = y}

\* the event of triangle k at (x, y)
EventAt(k, x, y) == CHOOSE e \in frame[k].tested : e.x = x /\ e.y = y

\* the data_buffer entry at (x, y) when triangle k, or with k past the frame
\* the present moment, is reached: what the last triangle before it that
\* tested the pixel left, or the cleared entry
StoredBefore(k, x, y) ==
    LET earlier == {j \in TestedAt(x, y) : j < k}
    IN  IF earlier = {} THEN unset
        ELSE EventAt(CHOOSE j \in earlier : \A i \in earlier : i <= j, x, y).after

\* C25: since the last clear_buffer (or construction), at every pixel the
\* data_buffer entry is what the last depth test there left and changed in
\* no other step; a depth test never increases the stored inv_depth, changes
\* the entry only together with a write of the shaded colour to the pixel,
\* and writes both when the fragment's inv_depth equals the stored one.
C25_DepthNeverIncreases ==
    status = "ok" =>
        \A x \in 0..(vp.width - 1) : \A y \in 0..(vp.height - 1) :
            /\ vp.data_buffer[y + 1][x + 1] = StoredBefore(Len(frame) + 1, x, y)
            /\ \A k \in TestedAt(x, y) :
                   \E e \in {EventAt(k, x, y)} :
                       /\ e.before = StoredBefore(k, x, y)
                       /\ FLe(e.after.inv_depth, e.before.inv_depth)
                       /\ e.after # e.before => Written(e)
                       /\ e.frag.inv_depth = e.before.inv_depth => Written(e)

\* a frame in which a fragment met a different stored fragment of equal
\* inv_depth and another colour and replaced both, and its entry is the one
\* the viewport holds
C25_Witness ==
    /\ status = "ok"
    /\ \E e \in TriEvents :
          /\ e.before # unset
          /\ e.frag.inv_depth = e.before.inv_depth
          /\ e.frag # e.before
          /\ e.color # e.pixel_before
          /\ Written(e)
          /\ vp.data_buffer[e.y + 1][e.x + 1] = e.frag

\* ------------------------------------------------------------------------
\* The rasterizer in f32: every operation of draw_triangle rounded
\* ------------------------------------------------------------------------
\* Viewport::project, each operation rounded
project_f32(v, vec) ==
    <<F32Add(F32Div(F32Mul(vec.X, v.focal_length), vec.Z), F32Mul(I(v.width), Q(1, 2))),
      F32Add(F32Div(F32Mul(vec.Y, v.focal_length), vec.Z), F32Mul(I(v.height), Q(1, 2)))>>

\* VertexData::lerp, each operation rounded
lerp_f32(self, other, x, y, fac) ==
    [UV |-> lerp_uv_f32(self.UV, other.UV, fac),
     screenXY |-> <<x, y>>,
     normal |-> lerp_vec_f32(self.normal, other.normal, fac),
     worldXYZ |-> lerp_vec_f32(self.worldXYZ, other.worldXYZ, fac),
     inv_depth |-> F32Add(self.inv_depth, F32Mul(F32Sub(other.inv_depth, self.inv_depth), fac))]

\* the points pushed by one branch of draw_line, walking n+1 steps from
\* start, each operation rounded
LinePointsF32(start, end, n, alongX) ==
    LET dx == F32Sub(end.screenXY[1], start.screenXY[1])
        dy == F32Sub(end.screenXY[2], start.screenXY[2])
    IN  [k \in 1..(n + 1) |->
            lerp_f32(start, end,
                     IF alongX THEN F32Add(start.screenXY[1], I(k - 1))
                     ELSE F32Add(start.screenXY[1], F32Mul(I(k - 1), F32Div(dx, dy))),
                     IF alongX THEN F32Add(start.screenXY[2], F32Mul(I(k - 1), F32Div(dy, dx)))
                     ELSE F32Add(start.screenXY[2], I(k - 1)),
                     F32Div(I(k - 1), IF alongX THEN dx ELSE dy))]

\* Viewport::draw_line, each operation rounded
draw_line_f32(p1, p2) ==
    IF FGt(FAbs(F32Sub(p1.screenXY[1], p2.screenXY[1])), FAbs(F32Sub(p1.screenXY[2], p2.screenXY[2])))
    THEN LET start == IF FLt(p1.screenXY[1], p2.screenXY[1]) THEN p1 ELSE p2
             end == IF FLt(p1.screenXY[1], p2.screenXY[1]) THEN p2 ELSE p1
         IN  LinePointsF32(start, end, AsUsize(F32Sub(end.screenXY[1], start.screenXY[1])), TRUE)
    ELSE LET start == IF FLt(p1.screenXY[2], p2.screenXY[2]) THEN p1 ELSE p2
             end == IF FLt(p1.screenXY[2], p2.screenXY[2]) THEN p2 ELSE p1
         IN  LinePointsF32(start, end, AsUsize(F32Sub(end.screenXY[2], start.screenXY[2])), FALSE)

\* the points of the three edges p1-p2, p2-p3, p3-p1, in this order
EdgePointsF32(p) == Cat3([e \in 1..3 |-> draw_line_f32(p[e], p[(e % 3) + 1])])

\* the number of entries of the span table of a triangle with corners p
SpanRows(p) == IF YMax(p) + 1 > YMin(p) THEN YMax(p) + 1 - YMin(p) ELSE 0

\* the span table of a triangle with corners p
XBoundsF32(p) ==
    XBoundsLoop(EdgePointsF32(p), 1, YMin(p), [k \in 1..SpanRows(p) |-> XBoundsInit])

\* the fragment interpolated for the visited pixel (x, y)
InterpF32(p, xb, x, y) ==
    LET e == xb[y - YMin(p) + 1]
        x_min == e.lo.screenXY[1]
        x_max == e.hi.screenXY[1]
    IN  lerp_f32(e.lo, e.hi, I(x), I(y), F32Div(F32Sub(I(x), x_min), F32Sub(x_max, x_min)))

\* the fragments of the pixels <<x, y>> the fill loops visit
FragmentsF32(v, p, xb) ==
    [c \in {d \in (0..(v.width - 1)) \X (0..(v.height - 1)) : Covered(v, p, xb, d[1], d[2])} |->
        InterpF32(p, xb, c[1], c[2])]

\* apply_phong_shader: the colour written for a fragment, or the panic of
\* a texture read out of range
ShadeF32(fragment, tex, mode) ==
    LET base == sample_f32(tex, <<F32Div(fragment.UV[1], fragment.inv_depth),
                                  F32Div(fragment.UV[2], fragment.inv_depth)>>)
    IN  IF base.panic THEN base
        ELSE IF mode = "None" THEN [panic |-> FALSE, color |-> base.color]
        ELSE [panic |-> FALSE,
              color |-> <<smooth_clamp(F32Div(fragment.worldXYZ.X, fragment.inv_depth)),
                          smooth_clamp(F32Div(fragment.worldXYZ.Y, fragment.inv_depth)),
                          smooth_clamp(F32Div(fragment.worldXYZ.Z, fragment.inv_depth))>>]

\* the fill loops of draw_triangle over the fragments frags
FillF32(v, frags, tex, mode) ==
    IF \E c \in DOMAIN frags :
          ~DepthSkip(frags[c], v.data_buffer[c[2] + 1][c[1] + 1]) /\ ShadeF32(frags[c], tex, mode).panic
    THEN [v |-> v, tested |-> {}, panic |-> TRUE]
    ELSE WriteFragments(v, frags, [c \in DOMAIN frags |-> ShadeF32(frags[c], tex, mode).color])

\* Viewport::draw_triangle with apply_phong_shader in f32, once the span
\* table b is built
draw_triangle_f32(v, p, b, tex, mode) ==
    IF b.panic THEN [v |-> v, tested |-> {}, panic |-> TRUE]
    ELSE FillF32(v, FragmentsF32(v, p, b.x_bounds), tex, mode)

\* at most this many triangles are drawn into a frame
MaxDraws == 1

\* the focal length of the viewport triangles are drawn into
RasterFocal == 4

\* vertices in camera space at Z = -4, projected to the screen points
\* (0, 0), (4, 0), (0, 4), (4, 4) and (-4, 0): in and around the viewport
FillVertices ==
    {XYZ(I(2), Q(3, 2), I(-4)), XYZ(I(-2), Q(3, 2), I(-4)), XYZ(I(2), Q(-5, 2), I(-4)),
     XYZ(I(-2), Q(-5, 2), I(-4)), XYZ(I(6), Q(3, 2), I(-4))}

\* vertices in camera space at Z = -4, projected to the screen points
\* (-4, 6), (17, 3), (2, 6), (2, 3) and (-1, 9/2): below the viewport
SpanVertices ==
    {XYZ(I(6), Q(-9, 2), I(-4)), XYZ(I(-15), Q(-3, 2), I(-4)), XYZ(I(0), Q(-9, 2), I(-4)),
     XYZ(I(0), Q(-3, 2), I(-4)), XYZ(I(3), I(-3), I(-4))}

\* the VertexData draw_mesh builds for a vertex with texture coordinate uv
CornerF32(v, vertex, uv) ==
    VertexData(<<F32Div(uv[1], vertex.Z), F32Div(uv[2], vertex.Z)>>, project_f32(v, vertex),
               vertex, zero, F32Div(I(1), vertex.Z))

\* the triples of distinct vertices of the set S
Triples(S) == {t \in S \X S \X S : t[1] # t[2] /\ t[1] # t[3] /\ t[2] # t[3]}

\* the viewport triangles are drawn into, as constructed
RasterViewport == ViewportNew(ViewWidth, ViewHeight, I(RasterFocal), Background)

\* the corner triples handed to draw_triangle
RasterCorners ==
    {<<CornerF32(RasterViewport, t[1], <<I(0), I(0)>>), CornerF32(RasterViewport, t[2], <<I(1), I(0)>>),
       CornerF32(RasterViewport, t[3], <<I(0), I(1)>>)>> :
        t \in Triples(FillVertices) \cup Triples(SpanVertices)}

\* a driver that draws triangles into a new viewport
RasterInit ==
    /\ mesh = MeshEmpty
    /\ last = [op |-> "construct", ctor |-> "empty"]
    /\ vp = RasterViewport
    /\ status = "ok"
    /\ nops = 0
    /\ frame = <<>>

DrawTriangleF32(p) ==
    /\ status = "ok"
    /\ nops < MaxDraws
    /\ \E mode \in {"None", "Flat"} :
           /\ \E r \in {draw_triangle_f32(vp, p, XBoundsF32(p), mesh.texture, mode)} :
                  /\ vp' = IF r.panic THEN vp ELSE r.v
                  /\ frame' = IF r.panic THEN frame
                              ELSE Append(frame, [kind |-> "triangle", tested |-> r.tested])
                  /\ status' = IF r.panic THEN "panic" ELSE "ok"
           /\ last' = [op |-> "draw_triangle", p |-> p, mode |-> mode, vp |-> vp]
    /\ nops' = nops + 1
    /\ UNCHANGED mesh

RasterNext == \E p \in RasterCorners : DrawTriangleF32(p)

RasterSpec == RasterInit /\ [][RasterNext]_vars

\* ------------------------------------------------------------------------
\* Properties of the indices of the rasterizer
\* ------------------------------------------------------------------------
\* the rows the edge points of the corners p index the span table at
SpanIndices(p) ==
    {AsUsize(EdgePointsF32(p)[k].screenXY[2]) - YMin(p) : k \in 1..Len(EdgePointsF32(p))}

\* both buffers of viewport v have height rows of width entries
Dimensions(v) ==
    /\ Len(v.pixel_buffer) = v.height /\ Len(v.data_buffer) = v.height
    /\ \A h \in 1..v.height : Len(v.pixel_buffer[h]) = v.width /\ Len(v.data_buffer[h]) = v.width

\* C26: draw_triangle, for corners inside or outside the viewport, indexes
\* the span table only at rows 0 <= y - y_min < its length, returns, touches
\* the buffers only at 0 <= x < width and 0 <= y < height and keeps their
\* dimensions.
C26_IndicesInRange ==
    last.op = "draw_triangle" =>
        /\ \A i \in SpanIndices(last.p) : i >= 0 /\ i < SpanRows(last.p)
        /\ status = "ok"
        /\ Dimensions(vp)
        /\ vp.width = last.vp.width /\ vp.height = last.vp.height
        /\ \A e \in TriEvents : e.x >= 0 /\ e.x < vp.width /\ e.y >= 0 /\ e.y < vp.height

\* a triangle with corners outside the viewport was drawn and wrote
\* fragments inside it
C26_Drawn ==
    /\ last.op = "draw_triangle"
    /\ status = "ok"
    /\ \E k \in 1..3 : FLt(last.p[k].screenXY[1], I(0)) \/ FGe(last.p[k].screenXY[2], I(vp.height))
    /\ \E e \in TriEvents : e.after = e.frag

\* ------------------------------------------------------------------------
\* C27
\* ------------------------------------------------------------------------
\* the fields of a mesh that Mesh::transform never assigns
KeptFields == {"triangles", "tex_coords", "tex_tris", "face_normals", "vertex_normals",
               "texture", "mode", "cull_backfaces"}

\* the origin after the last transform: moved by a Translate, kept otherwise
OriginAfter ==
    IF last.tr.kind = "Translate" THEN add(Pre.origin, last.tr.vec) ELSE Pre.origin

\* C27: Mesh::transform, for every Transform variant, changes only the
\* vertices (and the origin, for Translate): triangles, tex_coords, tex_tris,
\* face_normals, vertex_normals, texture, material and cull_backfaces are
\* the ones from before the call and the number of vertices is the same, so
\* after a rotation the stored normals are still the pre-rotation ones.
C27_TransformFrame ==
    Did("transform") =>
        /\ \A f \in KeptFields : mesh[f] = Pre[f]
        /\ DOMAIN mesh = DOMAIN Pre
        /\ Len(mesh.vertices) = Len(Pre.vertices)
        /\ mesh.origin = OriginAfter

\* a rotation moved a vertex of a mesh whose normals had been calculated:
\* the stored normals are the old ones and no longer the ones
\* recalculate_normals would give
C27_Witness ==
    /\ Did("transform")
    /\ last.tr.kind \in {"RotateX", "RotateY", "RotateZ"}
    /\ mesh.vertices # Pre.vertices
    /\ \E k \in 1..Len(Pre.vertex_normals) : Pre.vertex_normals[k] # zero
    /\ \E t \in 1..Len(Pre.face_normals) : Pre.face_normals[t] # zero
    /\ mesh.vertex_normals = Pre.vertex_normals
    /\ mesh.face_normals = Pre.face_normals
    /\ recalculate_normals(mesh).face_normals # mesh.face_normals

\* a Translate moved the origin along with the vertices
C27_Translated ==
    /\ Did("transform")
    /\ last.tr.kind = "Translate"
    /\ mesh.origin # Pre.origin
    /\ mesh.vertices # Pre.vertices

====
